---- MODULE Spec2Model ----
(***************************************************************************)
(* State-machine model of the hand-gesture racing game:                    *)
(*   - the webcam Controller (src/controller.py): gesture classifiers,     *)
(*     per-frame control state, read-and-clear request accessors;          *)
(*   - the part of the main loop (src/main.py) that consumes the control   *)
(*     state: boost trigger, shift requests and gear;                      *)
(*   - the road geometry (src/models/road.py, src/models/lane.py);         *)
(*   - the hazard managers driven by Map.update (src/map.py) and the oil   *)
(*     spill manager (src/environment/oil_spill_manager.py);               *)
(*   - the hazard sprites of src/map.py, src/models and                    *)
(*     src/environment/models.                                             *)
(*                                                                         *)
(* Landmark coordinates are normalized floats in the source; here they are *)
(* integers in hundredths (0.01 units).  The steering slope is kept as an  *)
(* exact reduced fraction [n, d] with d > 0.                               *)
(***************************************************************************)
EXTENDS Integers, Sequences, FiniteSets, TLC

VARIABLES
    ctl,                 \* the Controller object's fields
    boost_active,        \* main(): locals of the game loop
    boost_end_time,
    boost_cooldown_end,
    prev_boosting,
    current_gear,
    settings_visible,    \* Settings.visible
    now,                 \* pygame.time.get_ticks(), in ms
    lastKind,            \* history: how the last frame was handled
    obsPrev,             \* history: what the last frame's hands showed
    lastConsumed,        \* history: the consume_* accessor called last, no frame since
    lastBoostAt,         \* history: time of the last boost activation (-1: none)
    obsBoost,            \* history: detector.boosting as seen by the last game tick
    game_map,            \* the Map object: scroll offset and its three managers
    oil_spill_manager,   \* an OilSpillManager
    road,                \* the Road the managers share
    refused,             \* history: the classes that had a due spawn refused
    lastTick,            \* history: the last hazard update, its inputs and spawns
    sprite,              \* one hazard sprite followed through its updates
    spriteIn,            \* history: the arguments of the sprite's last update
    geom,                \* history: the last road geometry call and its result
    thr,                 \* the capture thread, the game loop and what they share
    trace,               \* history: what the two threads have done
    player,              \* the PlayerCar: speed, lateral velocity, rect
    score,               \* Score.score
    settings_lane_count, \* Settings.lane_count
    bg                   \* the Road's map borders and map transition

gameVars == <<boost_active, boost_end_time, boost_cooldown_end, prev_boosting,
              current_gear, settings_visible, now>>
histVars == <<lastKind, obsPrev, lastConsumed, lastBoostAt, obsBoost>>
pureVars == <<sprite, spriteIn, geom>>
thrVars == <<thr, trace>>
carVars == <<player, score>>
sideVars == <<thrVars, carVars, settings_lane_count, bg>>
hazVars == <<game_map, oil_spill_manager, road, refused, lastTick, pureVars,
             sideVars>>
vars == <<ctl, boost_active, boost_end_time, boost_cooldown_end, prev_boosting,
          current_gear, settings_visible, now,
          lastKind, obsPrev, lastConsumed, lastBoostAt, obsBoost,
          game_map, oil_spill_manager, road, refused, lastTick,
          sprite, spriteIn, geom,
          thr, trace, player, score, settings_lane_count, bg>>

----------------------------------------------------------------------------
(* Small helpers *)

Max(a, b) == IF a >= b THEN a ELSE b
Min(a, b) == IF a <= b THEN a ELSE b
Abs(a) == IF a < 0 THEN -a ELSE a

RECURSIVE Gcd(_, _)
Gcd(a, b) == IF b = 0 THEN a ELSE Gcd(b, a % b)

\* The fraction n/d (d # 0) in lowest terms with a positive denominator.
Frac(n, d) ==
    LET sn == IF d < 0 THEN -n ELSE n
        sd == Abs(d)
        g  == Gcd(Abs(sn), sd)
    IN  [n |-> sn \div g, d |-> sd \div g]

FracLeq(a, b) == a.n * b.d <= b.n * a.d
FracLt(a, b) == a.n * b.d < b.n * a.d
Zero == Frac(0, 1)

\* Python's None: for latest_result a record unlike any detection result, for
\* _prev_right_hand_y the empty sequence (a sample y is kept as <<y>>).
None == [none |-> TRUE]
NoSample == << >>

----------------------------------------------------------------------------
(* Hand landmarks.  A hand is [pose, x, y]: landmark 0 (the wrist) is at   *)
(* (x, y); the y of landmarks 1..20 is given by the pose table.            *)

\* y of landmarks 1..20 (y grows downward), in hundredths.
PoseY ==
    [ open  |-> <<55, 50, 45, 40,  40, 30, 25, 20,  40, 30, 24, 18,
                  40, 30, 25, 20,  42, 32, 28, 25>>,
      point |-> <<55, 45, 48, 50,  40, 30, 25, 20,  40, 35, 38, 40,
                  40, 35, 38, 40,  42, 36, 38, 40>>,
      thumb |-> <<55, 45, 38, 30,  40, 38, 40, 42,  40, 35, 38, 40,
                  40, 35, 38, 40,  42, 36, 38, 40>>,
      fist  |-> <<55, 45, 48, 50,  40, 38, 40, 42,  40, 35, 38, 40,
                  40, 35, 38, 40,  42, 36, 38, 40>>,
      bent  |-> <<55, 50, 45, 40,  40, 30, 30, 31,  40, 30, 24, 18,
                  40, 30, 25, 20,  42, 32, 28, 25>> ]

Poses == DOMAIN PoseY

Hand(pose, x, y) == [pose |-> pose, x |-> x, y |-> y]

\* hand_landmarks[i] as the (x, y) point the code reads.
Landmark(hand, i) ==
    IF i = 0 THEN [x |-> hand.x, y |-> hand.y]
    ELSE [x |-> hand.x, y |-> PoseY[hand.pose][i]]

SeqSum(s) == LET F[i \in 0..Len(s)] == IF i = 0 THEN 0 ELSE F[i - 1] + s[i]
             IN  F[Len(s)]

\* Number of (tip, pip) pairs with tip.y > pip.y.
CurledCount(hand, tips, pips) ==
    SeqSum([k \in 1..Len(tips) |->
              IF Landmark(hand, tips[k]).y > Landmark(hand, pips[k]).y
              THEN 1 ELSE 0])

IsIndexOnly(hand) ==
    LET index_tip == Landmark(hand, 8)
        index_pip == Landmark(hand, 6)
        index_mcp == Landmark(hand, 5)
        index_extended == index_tip.y < index_pip.y /\ index_pip.y < index_mcp.y
        curled_count == CurledCount(hand, <<12, 16, 20>>, <<10, 14, 18>>)
    IN  index_extended /\ curled_count >= 2

IsThumbUp(hand) ==
    LET thumb_tip == Landmark(hand, 4)
        thumb_mcp == Landmark(hand, 2)
        thumb_up  == thumb_tip.y < thumb_mcp.y
        curled    == CurledCount(hand, <<8, 12, 16, 20>>, <<6, 10, 14, 18>>)
    IN  thumb_up /\ curled >= 3

IndexClosedMargin == 1

IsIndexClosed(hand) ==
    LET index_tip == Landmark(hand, 8)
        index_pip == Landmark(hand, 6)
    IN  index_tip.y > index_pip.y + IndexClosedMargin

----------------------------------------------------------------------------
(* Detection results delivered by the landmarker callback.                 *)
(* A result is [hand_landmarks |-> sequence of hands,                      *)
(*              handedness |-> sequence of labels (<<>> when absent)].     *)

Result(hands, labels) == [hand_landmarks |-> hands, handedness |-> labels]

LeftWrist == [x |-> 30, y |-> 50]
RightWristDefault == [x |-> 70, y |-> 30]

\* Right-wrist positions: 2 and 3 hundredths below the default, same x as
\* the left wrist, left of the left wrist, level with the left wrist.
RightWrists ==
    { RightWristDefault, [x |-> 70, y |-> 32], [x |-> 70, y |-> 33],
      [x |-> 30, y |-> 30], [x |-> 10, y |-> 50], [x |-> 70, y |-> 50] }

LR == <<"Left", "Right">>

\* Two hands, detector order (left, right), all pose pairs at the default wrists.
PoseResults ==
    { Result(<<Hand(pl, LeftWrist.x, LeftWrist.y),
               Hand(pr, RightWristDefault.x, RightWristDefault.y)>>, LR)
        : pl \in {"open", "point", "thumb"}, pr \in {"open", "point"} }

\* Two hands, steering and swiping: the right wrist moves.
WristResults ==
    { Result(<<Hand(pl, LeftWrist.x, LeftWrist.y), Hand("open", w.x, w.y)>>, LR)
        : pl \in {"open", "point"}, w \in RightWrists }

\* Two hands with other handedness labellings.
LabelResults ==
    { Result(<<Hand("open", RightWristDefault.x, RightWristDefault.y),
               Hand("point", LeftWrist.x, LeftWrist.y)>>, <<"Right", "Left">>),
      Result(<<Hand("point", LeftWrist.x, LeftWrist.y),
               Hand("open", RightWristDefault.x, RightWristDefault.y)>>, <<>>) }

\* Two hands whose handedness labels do not tell them apart: the same
\* label twice, or one hand's category list empty.
AmbiguousLabelResults ==
    { Result(<<Hand("thumb", LeftWrist.x, LeftWrist.y),
               Hand("point", RightWristDefault.x, RightWristDefault.y)>>,
             labels)
        : labels \in { <<"Left", "Left">>, <<"Right", "Right">>,
                       <<"", "Left">>, <<"Right", "">> } }

\* One hand.
OneHandResults ==
    { Result(<<Hand(p, 50, 30)>>, <<"Right">>) : p \in {"open", "fist", "bent"} }
        \cup { Result(<<Hand("open", 50, 33)>>, <<"Right">>) }

\* One hand moving up and down by 2 and 3 hundredths.
OneHandMoves ==
    { Result(<<Hand("open", 50, y)>>, <<"Right">>) : y \in {30, 32, 33} }

NoHandsResult == Result(<<>>, <<>>)

\* The results the controller is driven with: every pose, hand count and
\* labelling.
Results ==
    PoseResults \cup LabelResults \cup OneHandResults \cup {NoHandsResult}

\* The results for steering and swiping: the wrists move.
SteerResults ==
    WristResults \cup OneHandMoves \cup {NoHandsResult}

\* The results for the boost trigger: the left thumb goes up and down.
BoostResults ==
    { Result(<<Hand(pl, LeftWrist.x, LeftWrist.y),
               Hand("open", RightWristDefault.x, RightWristDefault.y)>>, LR)
        : pl \in {"open", "thumb"} } \cup {NoHandsResult}

----------------------------------------------------------------------------
(* Controller (src/controller.py).  ctl is the record of its fields.       *)

SwipeThreshold == 2

Neutral == Zero

InitController ==
    [ latest_result                |-> None,
      steer                        |-> Neutral,
      breaking                     |-> FALSE,
      boosting                     |-> FALSE,
      shift_up_requested           |-> FALSE,
      shift_down_requested         |-> FALSE,
      left_shift_active            |-> FALSE,
      right_shift_active           |-> FALSE,
      prev_left_shift_active       |-> FALSE,
      prev_right_shift_active      |-> FALSE,
      swipe_up_detected            |-> FALSE,
      swipe_down_detected          |-> FALSE,
      question_select_requested    |-> FALSE,
      prev_question_select_active  |-> FALSE,
      prev_right_hand_y            |-> NoSample,
      swipe_threshold              |-> SwipeThreshold,
      require_two_hands            |-> TRUE ]

ResetControls(c) ==
    [c EXCEPT !.steer = Neutral,
              !.breaking = FALSE,
              !.shift_up_requested = FALSE,
              !.shift_down_requested = FALSE,
              !.left_shift_active = FALSE,
              !.right_shift_active = FALSE,
              !.prev_left_shift_active = FALSE,
              !.prev_right_shift_active = FALSE,
              !.swipe_up_detected = FALSE,
              !.swipe_down_detected = FALSE,
              !.question_select_requested = FALSE,
              !.prev_question_select_active = FALSE,
              !.prev_right_hand_y = NoSample]

\* The 1-based positions of (left_hand, right_hand) in hand_landmarks.
RECURSIVE ResolveIdx(_, _, _, _)
ResolveIdx(handedness, i, left_idx, right_idx) ==
    IF i > Len(handedness) THEN <<left_idx, right_idx>>
    ELSE IF handedness[i] = "Left"
         THEN ResolveIdx(handedness, i + 1, i, right_idx)
    ELSE IF handedness[i] = "Right"
         THEN ResolveIdx(handedness, i + 1, left_idx, i)
    ELSE ResolveIdx(handedness, i + 1, left_idx, right_idx)

\* left_idx and right_idx after lines 172-182, counted from 1.
ResolveIndices(handedness) ==
    IF Len(handedness) >= 2 THEN ResolveIdx(handedness, 1, 1, 2) ELSE <<1, 2>>

ResolveLeftRightHands(result) ==
    LET hand_landmarks == result.hand_landmarks
        idx == ResolveIndices(result.handedness)
    IN  <<hand_landmarks[idx[1]], hand_landmarks[idx[2]]>>

\* Mutant: the requests follow the pose level, not its rising edge.
UpdateShiftState_Level(c, left_hand, right_hand) ==
    LET la == IsIndexOnly(left_hand)
        ra == IsIndexOnly(right_hand)
    IN  [c EXCEPT !.left_shift_active = la,
                  !.right_shift_active = ra,
                  !.shift_down_requested = la,
                  !.shift_up_requested = ra,
                  !.prev_left_shift_active = la,
                  !.prev_right_shift_active = ra]

UpdateShiftState(c, left_hand, right_hand) ==
    LET la == IsIndexOnly(left_hand)
        ra == IsIndexOnly(right_hand)
    IN  [c EXCEPT !.left_shift_active = la,
                  !.right_shift_active = ra,
                  !.shift_down_requested = la /\ ~c.prev_left_shift_active,
                  !.shift_up_requested = ra /\ ~c.prev_right_shift_active,
                  !.prev_left_shift_active = la,
                  !.prev_right_shift_active = ra]

\* Epsilon 1e-6 of the slope denominator; coordinates are hundredths, so the
\* slope is computed in millionths: 1 hundredth = MicroPerUnit millionths.
MicroPerUnit == 10000
EpsMicro == 1
SteerLimit == 5

\* Mutant: the slope is not clamped.
ComputeSteer_NoClamp(left_wrist, right_wrist) ==
    Frac((right_wrist.y - left_wrist.y) * MicroPerUnit,
         (right_wrist.x - left_wrist.x) * MicroPerUnit + EpsMicro)

ComputeSteer(left_wrist, right_wrist) ==
    LET num == (right_wrist.y - left_wrist.y) * MicroPerUnit
        den == (right_wrist.x - left_wrist.x) * MicroPerUnit + EpsMicro
        slope == Frac(num, den)
        hi == Frac(SteerLimit, 1)
        lo == Frac(-SteerLimit, 1)
        lowered == IF FracLeq(hi, slope) THEN hi ELSE slope
    IN  IF FracLeq(lowered, lo) THEN lo ELSE lowered

\* Mutant: a displacement equal to the threshold already counts as a swipe.
DetectSwipes_Geq(c, right_hand) ==
    LET current_y == Landmark(right_hand, 0).y
        has_prev == c.prev_right_hand_y # NoSample
        delta_y == IF has_prev THEN c.prev_right_hand_y[1] - current_y ELSE 0
        up == has_prev /\ delta_y >= c.swipe_threshold
        down == has_prev /\ ~up /\ delta_y <= -c.swipe_threshold
    IN  [c EXCEPT !.swipe_up_detected = up,
                  !.swipe_down_detected = down,
                  !.prev_right_hand_y = <<current_y>>]

DetectSwipes(c, right_hand) ==
    LET current_y == Landmark(right_hand, 0).y
        has_prev == c.prev_right_hand_y # NoSample
        delta_y == IF has_prev THEN c.prev_right_hand_y[1] - current_y ELSE 0
        up == has_prev /\ delta_y > c.swipe_threshold
        down == has_prev /\ ~up /\ delta_y < -c.swipe_threshold
    IN  [c EXCEPT !.swipe_up_detected = up,
                  !.swipe_down_detected = down,
                  !.prev_right_hand_y = <<current_y>>]

ProcessTwoHands(c) ==
    LET hands == ResolveLeftRightHands(c.latest_result)
        left_hand == hands[1]
        right_hand == hands[2]
        left_wrist == Landmark(left_hand, 0)
        right_wrist == Landmark(right_hand, 0)
        c1 == [c EXCEPT !.breaking =
                   ~c.left_shift_active /\ ~c.right_shift_active]
        c2 == UpdateShiftState(c1, left_hand, right_hand)
        c3 == [c2 EXCEPT !.boosting = IsThumbUp(left_hand)]
        c4 == DetectSwipes(c3, right_hand)
        normalized_slope == ComputeSteer(left_wrist, right_wrist)
    IN  [c4 EXCEPT !.steer = IF c4.breaking THEN Neutral ELSE normalized_slope]

AnyIndexClosed(hands) == \E i \in 1..Len(hands) : IsIndexClosed(hands[i])

\* Mutant: question mode leaves the boost flag as it was.
ProcessQuestionHands_KeepBoost(c) ==
    LET hands == c.latest_result.hand_landmarks
        primary_hand == hands[1]
        c1 == DetectSwipes(c, primary_hand)
        index_closed == AnyIndexClosed(hands)
    IN  [c1 EXCEPT
           !.question_select_requested =
               index_closed /\ ~c.prev_question_select_active,
           !.prev_question_select_active = index_closed,
           !.steer = Neutral,
           !.breaking = FALSE,
           !.shift_up_requested = FALSE,
           !.shift_down_requested = FALSE,
           !.left_shift_active = FALSE,
           !.right_shift_active = FALSE]

ProcessQuestionHands(c) ==
    LET hands == c.latest_result.hand_landmarks
    IN  IF Len(hands) = 0
        THEN [c EXCEPT !.swipe_up_detected = FALSE,
                       !.swipe_down_detected = FALSE,
                       !.question_select_requested = FALSE,
                       !.prev_question_select_active = FALSE,
                       !.prev_right_hand_y = NoSample]
        ELSE LET primary_hand == hands[1]
                 c1 == DetectSwipes(c, primary_hand)
                 index_closed == AnyIndexClosed(hands)
             IN  [c1 EXCEPT
                    !.question_select_requested =
                        index_closed /\ ~c.prev_question_select_active,
                    !.prev_question_select_active = index_closed,
                    !.steer = Neutral,
                    !.breaking = FALSE,
                    !.shift_up_requested = FALSE,
                    !.shift_down_requested = FALSE,
                    !.left_shift_active = FALSE,
                    !.right_shift_active = FALSE,
                    !.boosting = FALSE]

\* `self.latest_result and self.latest_result.hand_landmarks`
HasHands(c) ==
    c.latest_result # None /\ Len(c.latest_result.hand_landmarks) > 0

\* Which branch _draw_annotations_internal takes for the controller state c.
FrameKind(c) ==
    IF ~HasHands(c) THEN "reset"
    ELSE IF c.require_two_hands /\ Len(c.latest_result.hand_landmarks) # 2
         THEN "reset"
    ELSE IF c.require_two_hands THEN "two"
    ELSE "question"

DrawAnnotationsInternal(c) ==
    IF ~HasHands(c) THEN ResetControls(c)
    ELSE LET hand_count == Len(c.latest_result.hand_landmarks)
         IN  IF c.require_two_hands /\ hand_count # 2 THEN ResetControls(c)
             ELSE IF c.require_two_hands THEN ProcessTwoHands(c)
             ELSE ProcessQuestionHands(c)

\* Mutant: the shift-up flag is returned but not cleared.
ConsumeShiftRequest_KeepUp(c) ==
    << <<c.shift_down_requested, c.shift_up_requested>>,
       [c EXCEPT !.shift_down_requested = FALSE] >>

\* consume_*: <<return value, controller afterwards>>
ConsumeShiftRequest(c) ==
    << <<c.shift_down_requested, c.shift_up_requested>>,
       [c EXCEPT !.shift_down_requested = FALSE,
                 !.shift_up_requested = FALSE] >>

ConsumeSwipeRequest(c) ==
    << <<c.swipe_up_detected, c.swipe_down_detected>>,
       [c EXCEPT !.swipe_up_detected = FALSE,
                 !.swipe_down_detected = FALSE] >>

ConsumeQuestionSelectRequest(c) ==
    << c.question_select_requested,
       [c EXCEPT !.question_select_requested = FALSE] >>

----------------------------------------------------------------------------
(* History of the frames, kept beside the program state.                   *)

NoObs == [left |-> FALSE, right |-> FALSE, y |-> NoSample, closed |-> FALSE]

\* What the hands of the result about to be processed show.
Observe(c) ==
    LET kind == FrameKind(c)
        hands == c.latest_result.hand_landmarks
    IN  IF kind = "two"
        THEN LET lr == ResolveLeftRightHands(c.latest_result)
             IN  [left |-> IsIndexOnly(lr[1]), right |-> IsIndexOnly(lr[2]),
                  y |-> <<Landmark(lr[2], 0).y>>, closed |-> FALSE]
        ELSE IF kind = "question"
        THEN [left |-> FALSE, right |-> FALSE,
              y |-> <<Landmark(hands[1], 0).y>>, closed |-> AnyIndexClosed(hands)]
        ELSE NoObs

----------------------------------------------------------------------------
(* Road geometry (src/models/road.py, src/models/lane.py).  A road is the   *)
(* record of the Road fields the lane and spawn functions read; a lane is  *)
(* the record [index, left, right].  lane_width() is the float             *)
(* width / lane_count; x + i * lane_width() is kept exact as the fraction  *)
(* (x * lane_count + i * width) / lane_count before int() truncates it.    *)

MIN_LANE_COUNT == 1
MAX_LANE_COUNT == 6

\* int(): truncation toward zero of a / b, b > 0.
TruncDiv(a, b) == IF a >= 0 THEN a \div b ELSE -((-a) \div b)
\* a / b rounded away from zero, b > 0.
CeilDiv(a, b) == IF a >= 0 THEN (a + b - 1) \div b ELSE -((-a + b - 1) \div b)
\* Python's a // b, b > 0.
FloorDiv(a, b) == IF a >= 0 THEN a \div b ELSE -((-a + b - 1) \div b)

Road(x, width, height, lane_count) ==
    [x |-> x, width |-> width, height |-> height, lane_count |-> lane_count,
     active_border_left |-> x, active_border_right |-> x + width]

\* Lane.width
LaneWidth(lane) == Max(1, lane.right - lane.left)

\* Mutant: every lane gets the whole-pixel part of the lane width.
GetLane_IntWidth(self, lane_index) ==
    LET n == self.lane_count
        clamped_index == Max(0, Min(lane_index, n - 1))
        left == self.x + clamped_index * (self.width \div n)
    IN  [index |-> clamped_index, left |-> left,
         right |-> left + (self.width \div n)]

\* Road.get_lane
GetLane(self, lane_index) ==
    LET n == self.lane_count
        clamped_index == Max(0, Min(lane_index, n - 1))
        left == TruncDiv(self.x * n + clamped_index * self.width, n)
        right == IF clamped_index = n - 1
                 THEN self.x + self.width
                 ELSE TruncDiv(self.x * n + (clamped_index + 1) * self.width, n)
    IN  [index |-> clamped_index, left |-> left, right |-> right]

\* Road.random_lane: the lanes random.randrange can pick.
RandomLane(self) == {GetLane(self, i) : i \in 0..(self.lane_count - 1)}

\* Mutant: the fallback centers the object even when it is wider than the lane.
LaneSpawnX_Center(lane, obstacle_width, min_padding) ==
    LET slack == FloorDiv(LaneWidth(lane) - obstacle_width, 2)
        lane_padding == Min(min_padding, Max(0, slack))
        max_left == lane.right - obstacle_width - lane_padding
        min_left == lane.left + lane_padding
    IN  IF max_left <= min_left
        THEN {lane.left + slack}
        ELSE min_left..max_left

\* ObstacleManager._lane_spawn_x: the values it can return.
LaneSpawnX(lane, obstacle_width, min_padding) ==
    LET slack == FloorDiv(LaneWidth(lane) - obstacle_width, 2)
        lane_padding == Min(min_padding, Max(0, slack))
        max_left == lane.right - obstacle_width - lane_padding
        min_left == lane.left + lane_padding
    IN  IF max_left <= min_left
        THEN {lane.left + Max(0, slack)}
        ELSE min_left..max_left

\* Road.random_lane_spawn_x: the values it can return; its body repeats
\* _lane_spawn_x on a lane from random_lane.
RandomLaneSpawnX(self, obstacle_width, min_padding) ==
    UNION {LaneSpawnX(lane, obstacle_width, min_padding) :
               lane \in RandomLane(self)}

\* Mutant: the requested lane count is applied as it is.
SetLaneCountOf_Unclamped(self, lane_count) ==
    [self EXCEPT !.lane_count = lane_count]

\* Road.set_lane_count
SetLaneCountOf(self, lane_count) ==
    [self EXCEPT !.lane_count =
        Max(MIN_LANE_COUNT, Min(lane_count, MAX_LANE_COUNT))]

\* Road.get_borders
GetBorders(self) == <<self.active_border_left, self.active_border_right>>

\* Mutant: an object wider than the border span is put flush right.
ClampSpawnXToBorders_FlushRight(self, spawn_x, object_width, min_padding) ==
    LET left_border == GetBorders(self)[1]
        right_border == GetBorders(self)[2]
        padding == Max(0, min_padding)
        min_left == left_border + padding
        max_left == right_border - object_width - padding
        centered == left_border
                    + FloorDiv(right_border - left_border - object_width, 2)
    IN  IF max_left >= min_left
        THEN Max(min_left, Min(spawn_x, max_left))
        ELSE IF centered >= left_border THEN centered
        ELSE right_border - object_width

\* Road.clamp_spawn_x_to_borders
ClampSpawnXToBorders(self, spawn_x, object_width, min_padding) ==
    LET left_border == GetBorders(self)[1]
        right_border == GetBorders(self)[2]
        padding == Max(0, min_padding)
        min_left == left_border + padding
        max_left == right_border - object_width - padding
        centered == left_border
                    + FloorDiv(right_border - left_border - object_width, 2)
        fallback_left == Max(left_border, right_border - object_width)
    IN  IF max_left >= min_left
        THEN Max(min_left, Min(spawn_x, max_left))
        ELSE Max(left_border, Min(centered, fallback_left))

----------------------------------------------------------------------------
(* Hazards (src/map.py, src/environment/oil_spill_manager.py)              *)
(*                                                                         *)
(* The road is scaled down: heights, widths and the spawn interval are     *)
(* small integers.  No image assets are loaded, so every hazard of a class *)
(* has the same size.  A sprite group is the sequence of its sprites in    *)
(* insertion order.  Traffic keeps the float fields _y_pos, traffic_speed  *)
(* and direction_factor in fixed point, SubPixel units to one; the other   *)
(* classes only ever add whole numbers to _y_pos, so their y is whole.     *)

RoadHeight == 1
HazardWidth == 1
HazardHeight == 1
SpawnFrequency == 1
SubPixel == 1
MarkerSegment == 2
MaxTimer == 3

max_obstacles == 3
MAX_CRACKS == 2
MAX_BRS == 2
MAX_OIL_SPILLS == 2
MinTrafficSpeed == 1
MaxTrafficSpeed == 24

max_attempts == 10
ObstaclePadding == 10
CrackPadding == 14
BRPadding == 10
OilSpillPadding == 8

\* The distances above the top edge a spawn can draw (random.randint in the
\* spawn methods).
SpawnJitters == {0}
\* Values of random.uniform(0.5, 2.5), in fixed point.
TrafficSpeeds == {SubPixel, 2 * SubPixel}
\* Values of Map.speed.
Speeds == {0, 2}

\* rect.y of a sprite.
RectY(s) ==
    IF "y_pos" \in DOMAIN s THEN TruncDiv(s.y_pos, SubPixel) ELSE s.y

\* The positions spawn_x, spawn_y at the left edges xs.
SpawnPositions(xs) == {[x |-> x, y |-> -HazardHeight - j] : x \in xs, j \in SpawnJitters}

\* Candidate positions of one placement attempt of _spawn_obstacle: the
\* lane is always the middle one.
ObstacleCandidates ==
    SpawnPositions(LaneSpawnX(GetLane(road, road.lane_count \div 2),
                              HazardWidth, ObstaclePadding))

\* Candidate positions of _spawn_crack.
CrackCandidates ==
    SpawnPositions(UNION {LaneSpawnX(lane, HazardWidth, CrackPadding) :
                              lane \in RandomLane(road)})

\* Candidate positions of one placement attempt of _spawn_br.
BRCandidates ==
    SpawnPositions(UNION {LaneSpawnX(lane, HazardWidth, BRPadding) :
                              lane \in RandomLane(road)})

\* Candidate positions of one placement attempt of _spawn_oil_spill: the
\* lane spawn x is clamped to the active borders.
OilSpillCandidates ==
    SpawnPositions(
        {ClampSpawnXToBorders(road, x, HazardWidth, OilSpillPadding) :
            x \in UNION {LaneSpawnX(lane, HazardWidth, OilSpillPadding) :
                             lane \in RandomLane(road)}})

Range(seq) == {seq[i] : i \in DOMAIN seq}

\* The horizontal extents of the candidate and of the sprite overlap.
OverlapsX(cand, s) == s.x < cand.x + HazardWidth /\ s.x + HazardWidth > cand.x

\* The sprite is vertically within three heights of the candidate.
NearY(cand, s) == Abs(RectY(s) - cand.y) < HazardHeight * 3

\* The same-class test of a placement attempt.
OverlapsOwn(cand, group) ==
    \E s \in Range(group) : OverlapsX(cand, s) /\ NearY(cand, s)

\* The blocking-group test of the traffic and BR managers.
OverlapsBlocking(cand, blocking) ==
    \E s \in Range(blocking) : OverlapsX(cand, s)

\* The blocking-group test of the oil spill manager.
OverlapsBlockingNear(cand, blocking) ==
    \E s \in Range(blocking) : OverlapsX(cand, s) /\ NearY(cand, s)

\* Outcomes of a spawn loop whose placement attempts draw from candidates,
\* those in the set rejected failing a test.  An outcome is the position
\* the hazard is built at, the number of attempts made, whether all of
\* them were rejected, and the candidate of the last attempt.  An attempt
\* after the first is made only after a rejected one.  When every attempt
\* drew a rejected candidate the position is the last candidate, or with
\* redraw a position drawn anew.
SpawnOutcomes(candidates, rejected, redraw) ==
    {[pos |-> c, attempts |-> k, exhausted |-> FALSE, last |-> c] :
        c \in candidates \ rejected,
        k \in IF rejected = {} THEN {1} ELSE 1..max_attempts}
    \cup
    UNION {{[pos |-> c, attempts |-> max_attempts, exhausted |-> TRUE,
              last |-> l] : c \in IF redraw THEN candidates ELSE {l}} :
              l \in rejected}

\* _spawn_obstacle: after ten rejected attempts the position is drawn anew.
ObstacleSpawnOutcomes(obstacles, blocking) ==
    LET rejected == {c \in ObstacleCandidates :
                        OverlapsOwn(c, obstacles) \/ OverlapsBlocking(c, blocking)}
    IN  SpawnOutcomes(ObstacleCandidates, rejected, TRUE)

\* _spawn_crack: one draw, no test.
CrackSpawnOutcomes ==
    {[pos |-> c, attempts |-> 1, exhausted |-> FALSE, last |-> c] :
        c \in CrackCandidates}

\* Mutant: after ten rejected attempts the position is drawn anew.
BRSpawnOutcomes_Redraw(brs, blocking) ==
    LET rejected == {c \in BRCandidates :
                        OverlapsOwn(c, brs) \/ OverlapsBlocking(c, blocking)}
    IN  SpawnOutcomes(BRCandidates, rejected, TRUE)

\* _spawn_br: after ten rejected attempts the tenth candidate is used.
BRSpawnOutcomes(brs, blocking) ==
    LET rejected == {c \in BRCandidates :
                        OverlapsOwn(c, brs) \/ OverlapsBlocking(c, blocking)}
    IN  SpawnOutcomes(BRCandidates, rejected, FALSE)

\* _spawn_oil_spill: likewise, with the vertical distance in both tests.
OilSpillSpawnOutcomes(oil_spills, blocking) ==
    LET rejected == {c \in OilSpillCandidates :
                        OverlapsOwn(c, oil_spills)
                        \/ OverlapsBlockingNear(c, blocking)}
    IN  SpawnOutcomes(OilSpillCandidates, rejected, FALSE)

\* The sprites the constructors build at a position.
NewObstacle(pos, speed, traffic_speed) ==
    [x |-> pos.x, y_pos |-> pos.y * SubPixel,
     speed |-> speed * SubPixel,
     traffic_speed |-> Max(SubPixel \div 2, traffic_speed),
     direction_factor |-> SubPixel]

NewHazard(pos) == [x |-> pos.x, y |-> pos.y]

\* Mutant: removed as soon as the top passes the bottom edge.
PastBottom_Flush(s, screen_height) == RectY(s) > screen_height

\* The sprite is fully past the bottom edge / fully past the top edge.
PastBottom(s, screen_height) == RectY(s) > screen_height + HazardHeight
PastTop(s) == RectY(s) + HazardHeight < -HazardHeight

\* Mutant: the whole player speed is added to the traffic speed.
BlendedSpeed_FullPlayerSpeed(traffic_speed, player_speed) ==
    Max(MinTrafficSpeed * SubPixel,
        Min(MaxTrafficSpeed * SubPixel,
            traffic_speed + player_speed * SubPixel))

\* Obstacle.update: the speed blended from traffic and player speed.
BlendedSpeed(traffic_speed, player_speed) ==
    Max(MinTrafficSpeed * SubPixel,
        Min(MaxTrafficSpeed * SubPixel,
            traffic_speed + (2 * player_speed * SubPixel) \div 10))

\* Obstacle.update: direction_factor eased by 0.18 of its distance to the
\* target; the fixed-point step is rounded away from zero.
EaseDirection(direction_factor, is_braking) ==
    LET target == IF is_braking THEN -SubPixel ELSE SubPixel
    IN  direction_factor + CeilDiv((target - direction_factor) * 18, 100)

\* Obstacle.update: the moved sprite (removal is decided by the group).
ObstacleUpdate(o, player_speed, is_braking) ==
    LET speed == BlendedSpeed(o.traffic_speed, player_speed)
        df == EaseDirection(o.direction_factor, is_braking)
    IN  [o EXCEPT !.speed = speed,
                  !.direction_factor = df,
                  !.y_pos = o.y_pos + TruncDiv(speed * df, SubPixel)]

ObstacleKilled(o, screen_height) == PastBottom(o, screen_height) \/ PastTop(o)

\* Obstacle.update of src/map.py once more, for one traffic obstacle followed
\* at a finer resolution: speed, traffic_speed and direction_factor are in
\* fixed point, FineUnit units to one, and _y_pos, which adds up their
\* products, FineUnit * FineUnit units to one.
FineUnit == 10
\* The height of the screen the followed obstacle moves on.
TrafficRoadHeight == 3

\* Obstacle.__init__.
FineObstacle(pos, speed, traffic_speed) ==
    [x |-> pos.x, y_pos |-> pos.y * FineUnit * FineUnit,
     speed |-> speed * FineUnit,
     traffic_speed |-> Max(FineUnit \div 2, traffic_speed),
     direction_factor |-> FineUnit]

\* max(1.0, min(24.0, traffic_speed + 0.2 * player_speed)).
FineBlendedSpeed(traffic_speed, player_speed) ==
    Max(MinTrafficSpeed * FineUnit,
        Min(MaxTrafficSpeed * FineUnit,
            traffic_speed + (2 * player_speed * FineUnit) \div 10))

\* Mutant: the direction factor moves by 1.8 of the remaining distance.
FineEaseDirection_Overshoot(direction_factor, is_braking) ==
    LET target == IF is_braking THEN -FineUnit ELSE FineUnit
    IN  direction_factor + CeilDiv((target - direction_factor) * 180, 100)

\* direction_factor += (target_direction - direction_factor) * 0.18; the
\* fixed-point step is rounded away from zero.
FineEaseDirection(direction_factor, is_braking) ==
    LET target == IF is_braking THEN -FineUnit ELSE FineUnit
    IN  direction_factor + CeilDiv((target - direction_factor) * 18, 100)

\* The moved obstacle: _y_pos += speed * direction_factor with the new speed
\* and the new direction factor.
FineObstacleUpdate(o, player_speed, is_braking) ==
    LET speed == FineBlendedSpeed(o.traffic_speed, player_speed)
        df == FineEaseDirection(o.direction_factor, is_braking)
    IN  [o EXCEPT !.speed = speed,
                  !.direction_factor = df,
                  !.y_pos = o.y_pos + speed * df]

\* rect.y = int(_y_pos), and the removal test on rect.top and rect.bottom.
FineRectY(o) == TruncDiv(o.y_pos, FineUnit * FineUnit)
FineObstacleKilled(o, screen_height) ==
    \/ FineRectY(o) > screen_height + HazardHeight
    \/ FineRectY(o) + HazardHeight < -HazardHeight

\* Crack.update and BRHazard.update: frozen while braking, else down by
\* max(1, map_speed).
HazardUpdate(h, map_speed, is_braking) ==
    IF is_braking THEN h ELSE [h EXCEPT !.y = h.y + Max(1, map_speed)]

HazardKilled(h, screen_height, is_braking) ==
    ~is_braking /\ PastBottom(h, screen_height)

\* OilSpill.update(map_speed, screen_height): down by max(0, map_speed).
OilSpillUpdate(h, map_speed) == [h EXCEPT !.y = h.y + Max(0, map_speed)]

\* Obstacle.update of src/models/obstacle.py: speed and direction come from
\* the signed relative speed of the player and the traffic vehicle.
ModelsObstacleUpdate(o, player_speed) ==
    LET capped_player_speed == Max(0, player_speed * SubPixel)
        traffic_world_speed == Min(o.traffic_speed, MaxTrafficSpeed * SubPixel)
        relative_speed == capped_player_speed - traffic_world_speed
        speed == Min(MaxTrafficSpeed * SubPixel, Abs(relative_speed))
        target_direction == IF relative_speed >= 0 THEN SubPixel ELSE -SubPixel
        df == o.direction_factor
              + CeilDiv((target_direction - o.direction_factor) * 18, 100)
    IN  [o EXCEPT !.speed = speed,
                  !.direction_factor = df,
                  !.y_pos = o.y_pos + TruncDiv(speed * df, SubPixel)]

\* Crack.update of src/models/crack.py: down by max(1, map_speed); it takes
\* no braking flag.
ModelsCrackUpdate(h, map_speed) == [h EXCEPT !.y = h.y + Max(1, map_speed)]

\* One sprite of each implementation, followed from its construction at a
\* spawn position.  impl names the class, alive is Sprite.alive(): kill()
\* takes the sprite out of its group.
ObstacleImpls == {"map.Obstacle", "models.Obstacle"}
HazardImpls == {"map.Crack", "models.Crack", "BRHazard", "models.OilSpill"}

\* The distances above the top edge a followed sprite is built at.
SpriteJitters == {0, 3}
\* Player speeds whose fifth is whole: 0.2 * player_speed is exact.
BlendSpeeds == {0, 5, 100}
\* Map and player speeds passed to the other updates.
SpriteSpeeds == {0, 1, 5, 100}

SpritePositions == {[x |-> 0, y |-> -HazardHeight - j] : j \in SpriteJitters}

Sprite(impl, fields) == [impl |-> impl, alive |-> TRUE] @@ fields

InitSprites ==
    {Sprite(i, NewObstacle(p, sp, ts)) :
        i \in ObstacleImpls, p \in SpritePositions, sp \in BlendSpeeds,
        ts \in TrafficSpeeds}
    \cup {Sprite(i, NewHazard(p)) : i \in HazardImpls, p \in SpritePositions}

\* The followed sprites: a traffic obstacle at the finer resolution, built
\* above the top edge with traffic speed 0.5 or 1, and one hazard of each
\* other class.
FineTrafficSpeeds == {FineUnit \div 2, FineUnit}
FineSprites ==
    {Sprite("traffic", FineObstacle(p, 5, ts)) :
        p \in SpritePositions, ts \in FineTrafficSpeeds}
    \cup {Sprite(i, NewHazard(p)) : i \in HazardImpls, p \in SpritePositions}

NoSprite == [impl |-> "none", alive |-> FALSE]
NoSpriteIn == [op |-> "none", speed |-> 0, is_braking |-> FALSE]

\* Mutant: a full group still admits one more sprite.
BelowMax_Leq(group, max) == Len(group) <= max

\* The test every manager makes before it spawns.
BelowMax(group, max) == Len(group) < max

\* Group.update for the traffic group: every sprite updates, then the
\* killed ones are gone.
ObstaclesUpdate(obstacles, speed, screen_height, is_braking) ==
    LET moved == [i \in DOMAIN obstacles |->
                     ObstacleUpdate(obstacles[i], speed, is_braking)]
    IN  SelectSeq(moved, LAMBDA o : ~ObstacleKilled(o, screen_height))

\* Group.update for cracks and for BRs.
HazardsUpdate(group, map_speed, screen_height, is_braking) ==
    LET moved == [i \in DOMAIN group |->
                     HazardUpdate(group[i], map_speed, is_braking)]
    IN  SelectSeq(moved, LAMBDA h : ~HazardKilled(h, screen_height, is_braking))

\* ObstacleManager.update: the manager states it can end in, each with the
\* outcome of the spawn it made (placed is empty when it made none).
ObstacleManagerUpdate(m, blocking, speed, is_braking) ==
    LET timer == m.timer + 1
        due == ~is_braking /\ timer >= SpawnFrequency
        spawned ==
            IF due /\ BelowMax(m.obstacles, max_obstacles)
            THEN {<<Append(m.obstacles, NewObstacle(o.pos, speed, ts)), {o}>> :
                      o \in ObstacleSpawnOutcomes(m.obstacles, blocking),
                      ts \in TrafficSpeeds}
            ELSE {<<m.obstacles, {}>>}
    IN  {[timer |-> IF due THEN 0 ELSE timer,
          obstacles |-> ObstaclesUpdate(g[1], speed, road.height, is_braking),
          placed |-> g[2]] :
             g \in spawned}

\* Mutant: the spawn step runs on braking ticks too.
TimedSpawn_NoFreeze(timer, group, max, outcomes, is_braking) ==
    IF timer + 1 < SpawnFrequency THEN {<<timer + 1, group, {}>>}
    ELSE IF BelowMax(group, max)
         THEN {<<0, Append(group, NewHazard(o.pos)), {o}>> : o \in outcomes}
         ELSE {<<0, group, {}>>}

\* The timer and spawn step shared by the crack, BR and oil spill managers:
\* the <<timer, group, placed>> triples it can end in.
TimedSpawn(timer, group, max, outcomes, is_braking) ==
    IF is_braking THEN {<<timer, group, {}>>}
    ELSE IF timer + 1 < SpawnFrequency THEN {<<timer + 1, group, {}>>}
    ELSE IF BelowMax(group, max)
         THEN {<<0, Append(group, NewHazard(o.pos)), {o}>> : o \in outcomes}
         ELSE {<<0, group, {}>>}

\* CrackManager.update
CrackManagerUpdate(m, map_speed, is_braking) ==
    {[timer |-> p[1],
      cracks |-> HazardsUpdate(p[2], map_speed, road.height, is_braking),
      placed |-> p[3]] :
         p \in TimedSpawn(m.timer, m.cracks, MAX_CRACKS, CrackSpawnOutcomes,
                          is_braking)}

\* BRManager.update
BRManagerUpdate(m, blocking, map_speed, is_braking) ==
    {[timer |-> p[1],
      brs |-> HazardsUpdate(p[2], map_speed, road.height, is_braking),
      placed |-> p[3]] :
         p \in TimedSpawn(m.timer, m.brs, MAX_BRS,
                          BRSpawnOutcomes(m.brs, blocking), is_braking)}

\* OilSpillManager.update: the group update passes three arguments to
\* OilSpill.update, which takes two, so with a sprite in the group the call
\* raises TypeError and no sprite moves.
OilSpillManagerUpdate(m, blocking, map_speed, is_braking) ==
    {[timer |-> p[1], oil_spills |-> p[2], raised |-> p[2] # << >>,
      placed |-> p[3]] :
         p \in TimedSpawn(m.timer, m.oil_spills, MAX_OIL_SPILLS,
                          OilSpillSpawnOutcomes(m.oil_spills, blocking),
                          is_braking)}

\* Road.__init__ with no map images: the road the hazards run on, one lane
\* as wide as a hazard.
InitRoad == Road(0, HazardWidth, RoadHeight, MIN_LANE_COUNT)

\* config.BRAKE_HAZARD_FREEZE_MS
BRAKE_HAZARD_FREEZE_MS == 0

\* Map.__init__; brake_hazard_freeze_ms is config.BRAKE_HAZARD_FREEZE_MS as
\* Map.update of src/environment/map.py reads it.
InitMap ==
    [scroll_y |-> 0,
     current_score |-> 0,
     brake_freeze_until |-> 0,
     brake_hazard_freeze_ms |-> BRAKE_HAZARD_FREEZE_MS,
     obstacle_manager |-> [timer |-> 0, obstacles |-> << >>],
     crack_manager |-> [timer |-> 0, cracks |-> << >>],
     br_manager |-> [timer |-> 0, brs |-> << >>]]

InitOilSpillManager == [timer |-> 0, oil_spills |-> << >>, raised |-> FALSE]

\* Map.update of src/environment/map.py.  The clock is pygame's millisecond
\* clock, followed up to MaxMapNow; LongFreeze is a second, longer setting
\* of BRAKE_HAZARD_FREEZE_MS; the oil spill manager, whose configured spawn
\* interval is the longest, spawns every OilSpillSpawnFrequency ticks.
MaxMapNow == 8
LongFreeze == 2
OilSpillSpawnFrequency == 3
FreezeSettings == {BRAKE_HAZARD_FREEZE_MS, LongFreeze}

\* _brake_freeze_until after the braking test at clock value t.
BrakeFreezeUntil(self, is_braking, t) ==
    IF is_braking THEN t + Max(0, self.brake_hazard_freeze_ms)
    ELSE self.brake_freeze_until

\* Mutant: the tick at the deadline is still frozen.
FreezeHazards_AtDeadline(is_braking, t, brake_freeze_until) ==
    is_braking \/ t <= brake_freeze_until

\* freeze_hazards = is_braking or now < self._brake_freeze_until
FreezeHazards(is_braking, t, brake_freeze_until) ==
    is_braking \/ t < brake_freeze_until

\* scroll_y after a tick that is not frozen.
ScrollMarkers(scroll_y, speed) ==
    IF scroll_y + speed >= MarkerSegment
    THEN scroll_y + speed - MarkerSegment ELSE scroll_y + speed

\* OilSpillManager.update with the manager's own spawn interval.
OilSpillManagerUpdateEvery(m, blocking, map_speed, is_braking) ==
    LET spawn ==
            IF is_braking THEN {<<m.timer, m.oil_spills, {}>>}
            ELSE IF m.timer + 1 < OilSpillSpawnFrequency
            THEN {<<m.timer + 1, m.oil_spills, {}>>}
            ELSE IF BelowMax(m.oil_spills, MAX_OIL_SPILLS)
            THEN {<<0, Append(m.oil_spills, NewHazard(o.pos)), {o}>> :
                     o \in OilSpillSpawnOutcomes(m.oil_spills, blocking)}
            ELSE {<<0, m.oil_spills, {}>>}
    IN  {[timer |-> p[1], oil_spills |-> p[2], raised |-> p[2] # << >>,
          placed |-> p[3]] : p \in spawn}

\* A non-braking update finds the spawn interval reached and the group full.
SpawnRefused(timer, group, max, is_braking) ==
    ~is_braking /\ timer + 1 >= SpawnFrequency /\ ~BelowMax(group, max)

\* An update finds the spawn interval reached and the group below its
\* maximum.
SpawnDue(timer, group, max) ==
    timer + 1 >= SpawnFrequency /\ BelowMax(group, max)

\* The classes a map update finds due.
MapDue ==
    (IF SpawnDue(game_map.crack_manager.timer, game_map.crack_manager.cracks,
                 MAX_CRACKS) THEN {"crack"} ELSE {})
    \cup (IF SpawnDue(game_map.br_manager.timer, game_map.br_manager.brs,
                      MAX_BRS) THEN {"br"} ELSE {})
    \cup (IF SpawnDue(game_map.obstacle_manager.timer,
                      game_map.obstacle_manager.obstacles, max_obstacles)
          THEN {"traffic"} ELSE {})

\* The spawn outcomes of a manager, labelled with its class.
Placed(class, placed) ==
    {[class |-> class, pos |-> o.pos, attempts |-> o.attempts,
      exhausted |-> o.exhausted, last |-> o.last] : o \in placed}

\* A road of one lane two hazards wide: a lane spawn has two left edges
\* to draw from.
WideRoad == Road(0, 2 * HazardWidth, RoadHeight, MIN_LANE_COUNT)

\* The tick record before any update.
NoTick ==
    [op |-> "none", speed |-> 0, is_braking |-> FALSE, due |-> {},
     placed |-> {}]

\* Roads the geometry is exercised on: left x, width, every lane count, and
\* active borders at the road edges or inset by a map's border override.
RoadXs == {0, 3}
RoadWidths == {7, 12}
BorderInsets == {0, 2}
RoadCases ==
    {[Road(x, w, RoadHeight, n) EXCEPT !.active_border_left = x + b,
                                       !.active_border_right = x + w - b] :
        x \in RoadXs, w \in RoadWidths,
        n \in MIN_LANE_COUNT..MAX_LANE_COUNT, b \in BorderInsets}

\* Arguments of the geometry calls.
LaneCountRequests == 0..(MAX_LANE_COUNT + 1)
ObjectWidths == {1, 3, 5, 14}
Paddings == {0, 1, 10}
ProposedXs == {-2, 5, 20}

NoLane == [index |-> -1, left |-> 0, right |-> 0]
NoGeom ==
    [op |-> "none", lane |-> NoLane, object_width |-> 0, min_padding |-> 0,
     spawn_x |-> 0, result |-> 0]

InitPure ==
    /\ sprite = NoSprite
    /\ spriteIn = NoSpriteIn
    /\ geom = NoGeom

----------------------------------------------------------------------------
(* The capture thread and the game loop (src/controller.py, src/main.py).  *)
(* thr holds what start_stream, stop_stream, _update and get_frame share:  *)
(* the running flag, the camera, the lock and the annotated frame, and     *)
(* each thread's position and locals, and the number of submitted frames  *)
(* whose result the detector has not delivered yet.  Frames are numbered   *)
(* 1, 2, 1, ...; 0 is None.                                                *)

NoFrame == 0
\* The most detection results outstanding at a time.
MaxPending == 2

InitThreads ==
    [running |-> FALSE, cap |-> "none", lock |-> "free",
     annotated_frame |-> NoFrame, pending |-> 0,
     cpc |-> "unstarted", frame |-> NoFrame, hl |-> << >>, lr |-> << >>,
     mpc |-> "start", got |-> NoFrame]

\* What the threads have done: the steps of stop_stream in order, the last
\* camera reads, how the last frame was handled and on how many hands,
\* whether the camera was used after its release, and which thread took
\* the last step.
NoTrace ==
    [stop |-> << >>, reads |-> "none", kind |-> "none", used |-> 0,
     late |-> FALSE, by |-> "none"]

\* self.thread.is_alive()
ThreadIsAlive(t) == t.cpc \notin {"unstarted", "exited", "crashed"}

\* The frame a successful cap.read() returns after frame f.
NextFrame(f) == IF f = 1 THEN 2 ELSE 1

\* _update, line 112: a successful read.
ReadOk(t) == [t EXCEPT !.frame = NextFrame(t.frame), !.cpc = "detect"]

\* Mutant: a failed read ends the capture loop.
ReadFailed_Exit(t) == [t EXCEPT !.cpc = "exited"]

\* _update, lines 113-115: a failed read is logged and the loop continues.
ReadFailed(t) == [t EXCEPT !.cpc = "loop"]

\* Mutant: the frame is stored and the lock is kept.
PublishFrame_KeepLock(t) ==
    [t EXCEPT !.annotated_frame = t.frame, !.cpc = "loop"]

\* _update, lines 127-128: the frame is stored, the with block ends.
PublishFrame(t) ==
    [t EXCEPT !.annotated_frame = t.frame, !.lock = "free", !.cpc = "loop"]

\* Mutant: stop_stream does not wait for the capture thread.
Joined_NoWait(t) == TRUE

\* stop_stream, lines 97-98: join() returns once the thread has ended.
Joined(t) == ~ThreadIsAlive(t)

\* _resolve_left_right_hands, line 183: an index past the end of the
\* hand_landmarks read on line 170 raises IndexError.
ResolveRaises(hand_landmarks, handedness) ==
    LET idx == ResolveIndices(handedness)
    IN  idx[1] > Len(hand_landmarks) \/ idx[2] > Len(hand_landmarks)

\* _process_two_hands, lines 352-353, on the hands resolved on line 348.
ProcessShift(c, left_hand, right_hand) ==
    UpdateShiftState(
        [c EXCEPT !.breaking = ~c.left_shift_active /\ ~c.right_shift_active],
        left_hand, right_hand)

\* _process_two_hands, lines 354-358.
ProcessSteer(c, left_hand, right_hand) ==
    LET c3 == [c EXCEPT !.boosting = IsThumbUp(left_hand)]
        c4 == DetectSwipes(c3, right_hand)
        normalized_slope ==
            ComputeSteer(Landmark(left_hand, 0), Landmark(right_hand, 0))
    IN  [c4 EXCEPT !.steer = IF c4.breaking THEN Neutral ELSE normalized_slope]

\* The results the detector delivers while the threads run: two hands,
\* one hand, none.
ThreadResults ==
    { Result(<<Hand("point", LeftWrist.x, LeftWrist.y),
               Hand("open", RightWristDefault.x, RightWristDefault.y)>>, LR),
      Result(<<Hand("open", 50, 30)>>, <<"Right">>),
      NoHandsResult }

----------------------------------------------------------------------------
(* The player car and the score (src/car.py, src/score.py), the settings'  *)
(* lane count (src/settings.py), the road's map borders and map transition *)
(* (src/models/road.py).                                                   *)

\* Screen and default road, in pixels.
WindowWidth == 1920
WindowHeight == 1080
DefaultRoadWidth == 700
LANE_COUNT == 3
MAP_SWITCH_SCORE == 25
MAP_TRANSITION_DISTANCE == 1400

\* Road._default_border_bounds
DefaultBorderBounds ==
    LET default_x == (WindowWidth - DefaultRoadWidth) \div 2
    IN  <<default_x, default_x + DefaultRoadWidth>>

\* MAP_BORDER_OVERRIDES of the three maps _load_background_images loads, in
\* its order; the ratios are in hundredths.
MapOverrides ==
    << [left_ratio |-> 37, right_ratio |-> 63],
       [left_ratio |-> 42, right_ratio |-> 58],
       [left_ratio |-> 37, right_ratio |-> 63] >>

\* Road._resolve_map_border_bounds for a map with ratio overrides.
ResolveMapBorderBounds(override) ==
    LET left0 == TruncDiv(override.left_ratio * WindowWidth, 100)
        right0 == TruncDiv(override.right_ratio * WindowWidth, 100)
        left == Max(0, Min(left0, WindowWidth - 1))
        right == Max(1, Min(right0, WindowWidth))
    IN  IF right <= left THEN DefaultBorderBounds ELSE <<left, right>>

\* Road.map_border_bounds
MapBorderBounds ==
    [i \in 1..Len(MapOverrides) |-> ResolveMapBorderBounds(MapOverrides[i])]

\* Road._get_map_borders; map_index counts from 0.
GetMapBorders(map_index) ==
    IF 0 <= map_index /\ map_index < Len(MapBorderBounds)
    THEN MapBorderBounds[map_index + 1]
    ELSE DefaultBorderBounds

\* Road._apply_map_borders
ApplyMapBorders(self, map_index) ==
    [self EXCEPT !.active_border_left = GetMapBorders(map_index)[1],
                 !.active_border_right = GetMapBorders(map_index)[2]]

\* Mutant: the borders are blended from the target map towards the source.
ApplyInterpolatedBorders_Reversed(self, num, den) ==
    LET from == GetMapBorders(self.transition_to_map_index)
        to == GetMapBorders(self.transition_from_map_index)
        blend == Max(0, Min(den, num))
    IN  [self EXCEPT
            !.active_border_left =
                TruncDiv(from[1] * den + (to[1] - from[1]) * blend, den),
            !.active_border_right =
                TruncDiv(from[2] * den + (to[2] - from[2]) * blend, den)]

\* Road._apply_interpolated_borders(progress), progress = num / den with
\* den > 0: int() of the blend of the two maps' borders.
ApplyInterpolatedBorders(self, num, den) ==
    LET from == GetMapBorders(self.transition_from_map_index)
        to == GetMapBorders(self.transition_to_map_index)
        blend == Max(0, Min(den, num))
    IN  [self EXCEPT
            !.active_border_left =
                TruncDiv(from[1] * den + (to[1] - from[1]) * blend, den),
            !.active_border_right =
                TruncDiv(from[2] * den + (to[2] - from[2]) * blend, den)]

\* Mutant: the transition ends only once the progress has passed the
\* transition distance.
UpdateBackgroundScroll_PastEnd(self, speed) ==
    LET offset == self.bg_y_offset + speed
        scrolled ==
            [self EXCEPT !.bg_y_offset =
                IF offset >= WindowHeight THEN offset - WindowHeight
                ELSE offset]
        px == self.transition_progress_px + Max(0, speed)
        transition_distance == Max(1, MAP_TRANSITION_DISTANCE)
    IN  IF ~self.is_transitioning THEN scrolled
        ELSE IF px > transition_distance
        THEN ApplyMapBorders(
                 [scrolled EXCEPT !.is_transitioning = FALSE,
                                  !.transition_progress_px = transition_distance],
                 self.transition_to_map_index)
        ELSE ApplyInterpolatedBorders(
                 [scrolled EXCEPT !.transition_progress_px = px],
                 px, transition_distance)

\* Road.update_background_scroll(speed)
UpdateBackgroundScroll(self, speed) ==
    LET offset == self.bg_y_offset + speed
        scrolled ==
            [self EXCEPT !.bg_y_offset =
                IF offset >= WindowHeight THEN offset - WindowHeight
                ELSE offset]
        px == self.transition_progress_px + Max(0, speed)
        transition_distance == Max(1, MAP_TRANSITION_DISTANCE)
    IN  IF ~self.is_transitioning THEN scrolled
        ELSE IF px >= transition_distance
        THEN ApplyMapBorders(
                 [scrolled EXCEPT !.is_transitioning = FALSE,
                                  !.transition_progress_px = transition_distance],
                 self.transition_to_map_index)
        ELSE ApplyInterpolatedBorders(
                 [scrolled EXCEPT !.transition_progress_px = px],
                 px, transition_distance)

\* Mutant: a new transition leaves current_map_index as it was.
SetMapByScore_StaleIndex(self, new_score) ==
    LET map_index ==
            FloorDiv(new_score, MAP_SWITCH_SCORE) % Len(MapBorderBounds)
    IN  IF map_index = self.current_map_index /\ ~self.is_transitioning
        THEN self
        ELSE IF self.is_transitioning
                /\ map_index = self.transition_to_map_index
        THEN self
        ELSE ApplyInterpolatedBorders(
                 [self EXCEPT
                     !.transition_from_map_index =
                         IF self.is_transitioning
                         THEN self.transition_to_map_index
                         ELSE self.current_map_index,
                     !.transition_to_map_index = map_index,
                     !.transition_progress_px = 0,
                     !.is_transitioning = TRUE],
                 0, 1)

\* Road.set_map_by_score(score)
SetMapByScore(self, new_score) ==
    LET map_index ==
            FloorDiv(new_score, MAP_SWITCH_SCORE) % Len(MapBorderBounds)
    IN  IF map_index = self.current_map_index /\ ~self.is_transitioning
        THEN self
        ELSE IF self.is_transitioning
                /\ map_index = self.transition_to_map_index
        THEN self
        ELSE ApplyInterpolatedBorders(
                 [self EXCEPT
                     !.transition_from_map_index =
                         IF self.is_transitioning
                         THEN self.transition_to_map_index
                         ELSE self.current_map_index,
                     !.transition_to_map_index = map_index,
                     !.transition_progress_px = 0,
                     !.is_transitioning = TRUE,
                     !.current_map_index = map_index],
                 0, 1)

\* Road.__init__, lines 55-66.
InitBg ==
    ApplyMapBorders(
        [bg_y_offset |-> 0, current_map_index |-> 0,
         transition_from_map_index |-> 0, transition_to_map_index |-> 0,
         transition_progress_px |-> 0, is_transitioning |-> FALSE,
         active_border_left |-> DefaultBorderBounds[1],
         active_border_right |-> DefaultBorderBounds[2]],
        0)

\* The player car: speeds in hundredths of a pixel per tick, a rect
\* PlayerWidth by PlayerHeight with its top edge at PlayerY.
CarUnit == 100
PlayerWidth == 1
PlayerHeight == 2
PlayerY == 0
ScreenWidth == 3
\* The largest car speed and lateral velocity explored, and the most
\* collision penalties taken off the score.
MaxCarSpeed == 24
MaxCarVelocity == 72
MaxDeductions == 1

\* main(), lines 139-140 in gear 1 without boost; config.FRICTION and
\* BRAKE_STRENGTH; car.py max(self.current_speed, 2) and self.smoothing.
GearAcceleration == 13
GearMaxSpeed == 450
FRICTION == 1
BRAKE_STRENGTH == 25
MinEffectiveSpeed == 200
SmoothingInverse == 5
car_collision_deduction_pts == 100

\* PlayerCar.__init__ with the rect on the road.
InitPlayer == [current_speed |-> 0, velocity_x |-> 0, x |-> 0]

\* PlayerCar.update; the smoothing step is truncated to the fixed point.
PlayerCarUpdate(p, steering, is_braking, max_speed, acceleration, friction, brake_strength, screen_width) ==
    LET s1 == IF is_braking THEN p.current_speed - brake_strength
              ELSE p.current_speed + acceleration
        s2 == s1 - friction
        current_speed == Min(max_speed, Max(0, s2))
        effective_speed == Max(current_speed, MinEffectiveSpeed)
        target_vx == steering * effective_speed
        velocity_x ==
            p.velocity_x + TruncDiv(target_vx - p.velocity_x, SmoothingInverse)
        x == p.x + TruncDiv(velocity_x, CarUnit)
    IN  IF x < 0
        THEN [current_speed |-> current_speed, velocity_x |-> 0, x |-> 0]
        ELSE IF x + PlayerWidth > screen_width
        THEN [current_speed |-> current_speed, velocity_x |-> 0,
              x |-> screen_width - PlayerWidth]
        ELSE [current_speed |-> current_speed, velocity_x |-> velocity_x,
              x |-> x]

\* pygame.sprite.collide_mask of the player and a sprite, both opaque
\* rectangles.
CollidesWithPlayer(p, s) ==
    /\ s.x < p.x + PlayerWidth /\ s.x + HazardWidth > p.x
    /\ RectY(s) < PlayerY + PlayerHeight /\ RectY(s) + HazardHeight > PlayerY

\* The sprites of a group that stay after spritecollide(..., dokill=True).
Survivors(p, group) == SelectSeq(group, LAMBDA s : ~CollidesWithPlayer(p, s))

\* Mutant: the score is lowered once per obstacle hit.
Deduct_PerObstacle(sc, hit) == sc - car_collision_deduction_pts * hit

\* main(), line 178: Score.deduct(settings.car_collision_deduction_pts);
\* hit is the number of obstacles the player collided with.
Deduct(sc, hit) == sc - car_collision_deduction_pts

InitSide ==
    /\ thr = InitThreads
    /\ trace = NoTrace
    /\ player = InitPlayer
    /\ score = 0
    /\ settings_lane_count = LANE_COUNT
    /\ bg = InitBg

----------------------------------------------------------------------------
(* Game loop locals (src/main.py) *)

BoostDuration == 1000
BoostCooldown == 10000
max_manual_gear == 5

\* The largest clock value explored.
MaxNow == 25000

InitGame ==
    /\ boost_active = FALSE
    /\ boost_end_time = 0
    /\ boost_cooldown_end = 0
    /\ prev_boosting = FALSE
    /\ current_gear = 1
    /\ settings_visible = FALSE
    /\ now = 0

InitHist ==
    /\ lastKind = "none"
    /\ obsPrev = NoObs
    /\ lastConsumed = "none"
    /\ lastBoostAt = -1
    /\ obsBoost = FALSE

Init ==
    /\ ctl = InitController
    /\ InitGame
    /\ InitHist
    /\ game_map = InitMap
    /\ oil_spill_manager = InitOilSpillManager
    /\ road = InitRoad
    /\ refused = {}
    /\ lastTick = NoTick
    /\ InitPure
    /\ InitSide

\* The game on the wide road.
InitWide ==
    /\ ctl = InitController
    /\ InitGame
    /\ InitHist
    /\ game_map = InitMap
    /\ oil_spill_manager = InitOilSpillManager
    /\ road = WideRoad
    /\ refused = {}
    /\ lastTick = NoTick
    /\ InitPure
    /\ InitSide

\* One sprite of some implementation, just constructed.
InitSprite ==
    /\ ctl = InitController
    /\ InitGame
    /\ InitHist
    /\ game_map = InitMap
    /\ oil_spill_manager = InitOilSpillManager
    /\ road = InitRoad
    /\ refused = {}
    /\ lastTick = NoTick
    /\ sprite \in InitSprites
    /\ spriteIn = NoSpriteIn
    /\ geom = NoGeom
    /\ InitSide

\* One followed sprite on a taller screen.
InitTraffic ==
    /\ ctl = InitController
    /\ InitGame
    /\ InitHist
    /\ game_map = InitMap
    /\ oil_spill_manager = InitOilSpillManager
    /\ road = Road(0, HazardWidth, TrafficRoadHeight, MIN_LANE_COUNT)
    /\ refused = {}
    /\ lastTick = NoTick
    /\ sprite \in FineSprites
    /\ spriteIn = NoSpriteIn
    /\ geom = NoGeom
    /\ InitSide

\* The game on the map of src/environment/map.py, with either freeze setting.
InitFreeze ==
    /\ ctl = InitController
    /\ InitGame
    /\ InitHist
    /\ game_map \in {[InitMap EXCEPT !.brake_hazard_freeze_ms = f] :
                        f \in FreezeSettings}
    /\ oil_spill_manager = InitOilSpillManager
    /\ road = InitRoad
    /\ refused = {}
    /\ lastTick = NoTick
    /\ InitPure
    /\ InitSide

\* A road of some geometry, no hazards on it.
InitGeom ==
    /\ ctl = InitController
    /\ InitGame
    /\ InitHist
    /\ game_map = InitMap
    /\ oil_spill_manager = InitOilSpillManager
    /\ road \in RoadCases
    /\ refused = {}
    /\ lastTick = NoTick
    /\ InitPure
    /\ InitSide

----------------------------------------------------------------------------
(* Operations *)

\* The landmarker's result callback stores the latest detection result.
Callback(result) ==
    /\ ctl' = [ctl EXCEPT !.latest_result = result]
    /\ UNCHANGED gameVars
    /\ UNCHANGED hazVars
    /\ UNCHANGED histVars

SetRequireTwoHands(required) ==
    /\ ctl' = [ctl EXCEPT !.require_two_hands = required]
    /\ UNCHANGED gameVars
    /\ UNCHANGED hazVars
    /\ UNCHANGED histVars

\* One iteration of the capture loop with a successful camera read: the
\* frame is annotated from the latest result, which updates the controls.
Update ==
    /\ ctl' = DrawAnnotationsInternal(ctl)
    /\ lastKind' = FrameKind(ctl)
    /\ obsPrev' = Observe(ctl)
    /\ lastConsumed' = "none"
    /\ UNCHANGED <<lastBoostAt, obsBoost>>
    /\ UNCHANGED gameVars
    /\ UNCHANGED hazVars

\* Mutant: the trigger follows the boosting level, not its rising edge.
BoostTrigger_Level(boosting, t) ==
    boosting /\ ~boost_active /\ t > boost_cooldown_end

\* The condition of the boost trigger at clock value t.
BoostTrigger(boosting, t) ==
    boosting /\ ~prev_boosting /\ ~boost_active /\ t > boost_cooldown_end

\* The boost block of the loop at clock value t:
\* <<boost_active, boost_end_time, boost_cooldown_end>> afterwards.
BoostStep(boosting, t) ==
    LET trig == BoostTrigger(boosting, t)
        active1 == IF trig THEN TRUE ELSE boost_active
        end1 == IF trig THEN t + BoostDuration ELSE boost_end_time
        cool1 == IF trig THEN t + BoostCooldown ELSE boost_cooldown_end
        active2 == IF active1 /\ t > end1 THEN FALSE ELSE active1
    IN  <<active2, end1, cool1>>

\* Mutant: a shift-down request wins over a simultaneous shift-up request.
ShiftGear_DownWins(gear, shift_down, shift_up) ==
    IF shift_down THEN Max(1, gear - 1)
    ELSE IF shift_up THEN Min(max_manual_gear, gear + 1)
    ELSE gear

\* The gear after the shift requests (shift_down, shift_up) are applied.
ShiftGear(gear, shift_down, shift_up) ==
    IF shift_down /\ ~shift_up THEN Max(1, gear - 1)
    ELSE IF shift_up /\ ~shift_down THEN Min(max_manual_gear, gear + 1)
    ELSE gear

\* One iteration of the game loop, dt ms after the previous one: the P key
\* toggles the settings menu; with the menu hidden the control state is read.
MainLoop(dt, key_p) ==
    /\ now + dt <= MaxNow
    /\ UNCHANGED hazVars
    /\ now' = now + dt
    /\ settings_visible' = IF key_p THEN ~settings_visible ELSE settings_visible
    /\ IF ~settings_visible'
       THEN LET b == BoostStep(ctl.boosting, now')
                consumed == ConsumeShiftRequest(ctl)
            IN  /\ boost_active' = b[1]
                /\ boost_end_time' = b[2]
                /\ boost_cooldown_end' = b[3]
                /\ prev_boosting' = ctl.boosting
                /\ current_gear' =
                       ShiftGear(current_gear, consumed[1][1], consumed[1][2])
                /\ ctl' = consumed[2]
                /\ lastConsumed' = "shift"
                /\ obsBoost' = ctl.boosting
                /\ lastBoostAt' =
                       IF BoostTrigger(ctl.boosting, now') THEN now' ELSE lastBoostAt
                /\ UNCHANGED <<lastKind, obsPrev>>
       ELSE /\ UNCHANGED <<ctl, boost_active, boost_end_time, boost_cooldown_end,
                           prev_boosting, current_gear>>
            /\ UNCHANGED histVars

\* The swipe and question-select accessors, called by a game loop in
\* question mode.
ConsumeSwipe ==
    /\ ctl' = ConsumeSwipeRequest(ctl)[2]
    /\ lastConsumed' = "swipe"
    /\ UNCHANGED <<lastKind, obsPrev, lastBoostAt, obsBoost>>
    /\ UNCHANGED gameVars
    /\ UNCHANGED hazVars

ConsumeQuestionSelect ==
    /\ ctl' = ConsumeQuestionSelectRequest(ctl)[2]
    /\ lastConsumed' = "select"
    /\ UNCHANGED <<lastKind, obsPrev, lastBoostAt, obsBoost>>
    /\ UNCHANGED gameVars
    /\ UNCHANGED hazVars

\* Map.update, called by the game loop with Map.speed = speed: the road
\* scrolls, then the crack, BR and traffic managers update in this order.
MapUpdate(speed, is_braking) ==
    /\ is_braking => game_map.obstacle_manager.timer < MaxTimer
    /\ LET scrolled == game_map.scroll_y + speed
           scroll_y == IF scrolled >= MarkerSegment
                       THEN scrolled - MarkerSegment ELSE scrolled
       IN  \E cm \in CrackManagerUpdate(game_map.crack_manager, speed, is_braking) :
           \E bm \in BRManagerUpdate(game_map.br_manager,
                                     game_map.obstacle_manager.obstacles,
                                     speed, is_braking) :
           \E om \in ObstacleManagerUpdate(game_map.obstacle_manager, bm.brs,
                                           speed, is_braking) :
               /\ game_map' =
                      [game_map EXCEPT
                          !.scroll_y = scroll_y,
                          !.obstacle_manager =
                              [timer |-> om.timer, obstacles |-> om.obstacles],
                          !.crack_manager =
                              [timer |-> cm.timer, cracks |-> cm.cracks],
                          !.br_manager = [timer |-> bm.timer, brs |-> bm.brs]]
               /\ lastTick' =
                      [op |-> "map", speed |-> speed,
                       is_braking |-> is_braking, due |-> MapDue,
                       placed |-> Placed("crack", cm.placed)
                                  \cup Placed("br", bm.placed)
                                  \cup Placed("traffic", om.placed)]
    /\ refused' = refused
           \cup (IF SpawnRefused(game_map.crack_manager.timer,
                                 game_map.crack_manager.cracks, MAX_CRACKS,
                                 is_braking)
                 THEN {"crack"} ELSE {})
           \cup (IF SpawnRefused(game_map.br_manager.timer,
                                 game_map.br_manager.brs, MAX_BRS, is_braking)
                 THEN {"br"} ELSE {})
           \cup (IF SpawnRefused(game_map.obstacle_manager.timer,
                                 game_map.obstacle_manager.obstacles,
                                 max_obstacles, is_braking)
                 THEN {"traffic"} ELSE {})
    /\ UNCHANGED <<oil_spill_manager, road, ctl, pureVars, sideVars>>
    /\ UNCHANGED gameVars
    /\ UNCHANGED histVars

\* One call of OilSpillManager.update; its blocking groups are the traffic,
\* BR and crack groups.
OilSpillTick(map_speed, is_braking) ==
    /\ \E m \in OilSpillManagerUpdate(
                    oil_spill_manager,
                    game_map.obstacle_manager.obstacles
                        \o game_map.br_manager.brs
                        \o game_map.crack_manager.cracks,
                    map_speed, is_braking) :
           /\ oil_spill_manager' =
                  [timer |-> m.timer, oil_spills |-> m.oil_spills,
                   raised |-> m.raised]
           /\ lastTick' =
                  [op |-> "oil", speed |-> map_speed,
                   is_braking |-> is_braking,
                   due |-> IF SpawnDue(oil_spill_manager.timer,
                                       oil_spill_manager.oil_spills,
                                       MAX_OIL_SPILLS)
                           THEN {"oil"} ELSE {},
                   placed |-> Placed("oil", m.placed)]
    /\ refused' = refused
           \cup (IF SpawnRefused(oil_spill_manager.timer,
                                 oil_spill_manager.oil_spills, MAX_OIL_SPILLS,
                                 is_braking)
                 THEN {"oil"} ELSE {})
    /\ UNCHANGED <<game_map, road, ctl, pureVars, sideVars>>
    /\ UNCHANGED gameVars
    /\ UNCHANGED histVars


\* sprite.update(...) on the followed sprite: it moves, and kill() takes it
\* out of its group.
SpriteStep(moved, killed, speed, is_braking) ==
    /\ sprite.alive
    /\ sprite' = [moved EXCEPT !.alive = ~killed]
    /\ spriteIn' = [op |-> "update", speed |-> speed, is_braking |-> is_braking]
    /\ UNCHANGED <<ctl, game_map, oil_spill_manager, road, refused, lastTick,
                   geom, sideVars>>
    /\ UNCHANGED gameVars
    /\ UNCHANGED histVars

\* Obstacle.update(player_speed, screen_height, is_braking) of src/map.py.
UpdateMapObstacle(player_speed, is_braking) ==
    /\ sprite.impl = "map.Obstacle"
    /\ LET o == ObstacleUpdate(sprite, player_speed, is_braking)
       IN  SpriteStep(o, ObstacleKilled(o, road.height), player_speed,
                      is_braking)

\* Obstacle.update(player_speed, screen_height) of src/models/obstacle.py.
UpdateModelsObstacle(player_speed) ==
    /\ sprite.impl = "models.Obstacle"
    /\ LET o == ModelsObstacleUpdate(sprite, player_speed)
       IN  SpriteStep(o, ObstacleKilled(o, road.height), player_speed, FALSE)

\* Crack.update(map_speed, screen_height, is_braking) of src/map.py.
UpdateMapCrack(map_speed, is_braking) ==
    /\ sprite.impl = "map.Crack"
    /\ LET h == HazardUpdate(sprite, map_speed, is_braking)
       IN  SpriteStep(h, HazardKilled(h, road.height, is_braking), map_speed,
                      is_braking)

\* Crack.update(map_speed, screen_height) of src/models/crack.py.
UpdateModelsCrack(map_speed) ==
    /\ sprite.impl = "models.Crack"
    /\ LET h == ModelsCrackUpdate(sprite, map_speed)
       IN  SpriteStep(h, PastBottom(h, road.height), map_speed, FALSE)

\* BRHazard.update(map_speed, screen_height, is_braking).
UpdateBRHazard(map_speed, is_braking) ==
    /\ sprite.impl = "BRHazard"
    /\ LET h == HazardUpdate(sprite, map_speed, is_braking)
       IN  SpriteStep(h, HazardKilled(h, road.height, is_braking), map_speed,
                      is_braking)

\* OilSpill.update(map_speed, screen_height).
UpdateOilSpill(map_speed) ==
    /\ sprite.impl = "models.OilSpill"
    /\ LET h == OilSpillUpdate(sprite, map_speed)
       IN  SpriteStep(h, PastBottom(h, road.height), map_speed, FALSE)

\* A geometry call: the road is read, the call and its result are noted.
GeomCall(call) ==
    /\ geom' = call
    /\ UNCHANGED <<ctl, game_map, oil_spill_manager, road, refused, lastTick,
                   sprite, spriteIn, sideVars>>
    /\ UNCHANGED gameVars
    /\ UNCHANGED histVars

\* Road.set_lane_count(lane_count)
SetLaneCount(lane_count) ==
    /\ road' = SetLaneCountOf(road, lane_count)
    /\ geom' = [NoGeom EXCEPT !.op = "set_lane_count"]
    /\ UNCHANGED <<ctl, game_map, oil_spill_manager, refused, lastTick,
                   sprite, spriteIn, sideVars>>
    /\ UNCHANGED gameVars
    /\ UNCHANGED histVars

\* ObstacleManager._lane_spawn_x(road.get_lane(lane_index), ...)
LaneSpawnXCall(lane_index, obstacle_width, min_padding) ==
    LET lane == GetLane(road, lane_index)
    IN  \E x \in LaneSpawnX(lane, obstacle_width, min_padding) :
            GeomCall([op |-> "lane_spawn_x", lane |-> lane,
                      object_width |-> obstacle_width,
                      min_padding |-> min_padding, spawn_x |-> 0,
                      result |-> x])

\* Road.random_lane_spawn_x(obstacle_width, min_padding)
RandomLaneSpawnXCall(obstacle_width, min_padding) ==
    \E x \in RandomLaneSpawnX(road, obstacle_width, min_padding) :
        GeomCall([op |-> "random_lane_spawn_x", lane |-> NoLane,
                  object_width |-> obstacle_width,
                  min_padding |-> min_padding, spawn_x |-> 0, result |-> x])

\* Road.clamp_spawn_x_to_borders(spawn_x, object_width, min_padding)
ClampSpawnXToBordersCall(spawn_x, object_width, min_padding) ==
    GeomCall([op |-> "clamp_spawn_x_to_borders", lane |-> NoLane,
              object_width |-> object_width, min_padding |-> min_padding,
              spawn_x |-> spawn_x,
              result |-> ClampSpawnXToBorders(road, spawn_x, object_width,
                                              min_padding)])

\* Settings.increase_lane_count
IncreaseLaneCount ==
    /\ settings_lane_count' = Min(settings_lane_count + 1, MAX_LANE_COUNT)
    /\ UNCHANGED <<ctl, game_map, oil_spill_manager, road, refused, lastTick,
                   pureVars, thrVars, carVars, bg>>
    /\ UNCHANGED gameVars
    /\ UNCHANGED histVars

\* Settings.decrease_lane_count
DecreaseLaneCount ==
    /\ settings_lane_count' = Max(settings_lane_count - 1, MIN_LANE_COUNT)
    /\ UNCHANGED <<ctl, game_map, oil_spill_manager, road, refused, lastTick,
                   pureVars, thrVars, carVars, bg>>
    /\ UNCHANGED gameVars
    /\ UNCHANGED histVars

\* Map.set_lane_count(lane_count): the road's lane count is set; the call
\* is noted.
MapSetLaneCount(lane_count) ==
    /\ road' = SetLaneCountOf(road, lane_count)
    /\ lastTick' = [op |-> "set_lane_count", lane_count |-> lane_count]
    /\ UNCHANGED <<ctl, game_map, oil_spill_manager, refused, pureVars,
                   sideVars>>
    /\ UNCHANGED gameVars
    /\ UNCHANGED histVars

\* main(), line 85: every iteration applies the settings' lane count.
SyncLaneCount == MapSetLaneCount(settings_lane_count)

\* Map.update_score(score): the road switches map by the score.
UpdateScore(new_score) ==
    /\ game_map' = [game_map EXCEPT !.current_score = new_score]
    /\ bg' = SetMapByScore(bg, new_score)
    /\ UNCHANGED <<ctl, oil_spill_manager, road, refused, lastTick,
                   pureVars, thrVars, carVars, settings_lane_count>>
    /\ UNCHANGED gameVars
    /\ UNCHANGED histVars

\* Road.update_background_scroll(speed), as Map.update calls it on a tick
\* that is not frozen.
BackgroundScroll(speed) ==
    /\ bg' = UpdateBackgroundScroll(bg, speed)
    /\ UNCHANGED <<ctl, game_map, oil_spill_manager, road, refused, lastTick,
                   pureVars, thrVars, carVars, settings_lane_count>>
    /\ UNCHANGED gameVars
    /\ UNCHANGED histVars

\* The obstacles the player collides with.
Collided(p, obstacles) ==
    {i \in DOMAIN obstacles : CollidesWithPlayer(p, obstacles[i])}

\* main(), lines 145-153: player_car.update in gear 1 without boost.
PlayerUpdate(steering, is_braking) ==
    /\ player' = PlayerCarUpdate(player, steering,
                                 is_braking, GearMaxSpeed, GearAcceleration,
                                 FRICTION, BRAKE_STRENGTH, ScreenWidth)
    /\ player'.current_speed <= MaxCarSpeed
    /\ Abs(player'.velocity_x) <= MaxCarVelocity
    /\ UNCHANGED <<ctl, game_map, oil_spill_manager, road, refused, lastTick,
                   pureVars, thrVars, score, settings_lane_count, bg>>
    /\ UNCHANGED gameVars
    /\ UNCHANGED histVars

\* main(), lines 155-157: the map takes the whole part of the car's speed
\* and is updated.
MapUpdateAtCarSpeed(is_braking) ==
    MapUpdate(TruncDiv(player.current_speed, CarUnit), is_braking)

\* main(), lines 167-178: the obstacles hit are removed from their group,
\* the car is stopped, the score is lowered; the handling is noted with the
\* car's speeds before it.
HandleCollision ==
    LET obstacles == game_map.obstacle_manager.obstacles
        hit == Collided(player, obstacles)
    IN  /\ hit # {}
        /\ score > -(MaxDeductions * car_collision_deduction_pts)
        /\ game_map' = [game_map EXCEPT !.obstacle_manager.obstacles =
                            Survivors(player, obstacles)]
        /\ player' = [player EXCEPT !.current_speed = 0, !.velocity_x = 0]
        /\ score' = Deduct(score, Cardinality(hit))
        /\ lastTick' = [op |-> "collision", hit |-> Cardinality(hit),
                        current_speed |-> player.current_speed,
                        velocity_x |-> player.velocity_x]
        /\ UNCHANGED <<ctl, oil_spill_manager, road, refused, pureVars,
                       thrVars, settings_lane_count, bg>>
        /\ UNCHANGED gameVars
        /\ UNCHANGED histVars

\* A step of the capture thread, the game loop or the detector: the
\* controller, the shared thread state and the trace change.
ThreadStep(c, t, tr, by) ==
    /\ ctl' = c
    /\ thr' = t
    /\ trace' = [tr EXCEPT !.by = by]
    /\ UNCHANGED <<game_map, oil_spill_manager, road, refused, lastTick,
                   pureVars, carVars, settings_lane_count, bg>>
    /\ UNCHANGED gameVars
    /\ UNCHANGED histVars

\* start_stream: the camera is opened, the capture thread started.
StartStream ==
    /\ thr.mpc = "start"
    /\ ThreadStep(ctl,
                  [thr EXCEPT !.cap = "open", !.running = TRUE,
                              !.cpc = "loop", !.mpc = "tick"],
                  trace, "main")

\* _update, line 111: while self.running
CaptureLoop ==
    /\ thr.cpc = "loop"
    /\ ThreadStep(ctl,
                  [thr EXCEPT !.cpc = IF thr.running THEN "read" ELSE "exited"],
                  trace, "capture")

\* _update, lines 112-115: ret, frame = self.cap.read().  A released camera
\* gives no frame.
CaptureRead(ret) ==
    /\ thr.cpc = "read"
    /\ ret => thr.cap = "open"
    /\ ThreadStep(ctl,
                  IF ret THEN ReadOk(thr) ELSE ReadFailed(thr),
                  [trace EXCEPT
                      !.reads = IF ~ret THEN "failed"
                                ELSE IF @ \in {"failed", "recovered"}
                                     THEN "recovered" ELSE "ok",
                      !.late = @ \/ thr.cap = "released"],
                  "capture")

\* _update, lines 117-122: the frame is submitted with detect_async; its
\* result is outstanding until the detector calls back.
CaptureDetect ==
    /\ thr.cpc = "detect"
    /\ ThreadStep(ctl,
                  [thr EXCEPT !.pending = Min(@ + 1, MaxPending),
                              !.cpc = "test"],
                  [trace EXCEPT !.late = @ \/ thr.cap = "released"],
                  "capture")

\* callback, run by the detector for a submitted frame.
DetectorCallback(result) ==
    /\ thr.pending > 0
    /\ ThreadStep([ctl EXCEPT !.latest_result = result],
                  [thr EXCEPT !.pending = @ - 1], trace, "detector")

\* _draw_annotations_internal, lines 409-411.
CaptureCheck ==
    /\ thr.cpc = "test"
    /\ IF HasHands(ctl)
       THEN ThreadStep(ctl, [thr EXCEPT !.cpc = "count"], trace, "capture")
       ELSE ThreadStep(ResetControls(ctl), [thr EXCEPT !.cpc = "store"],
                       [trace EXCEPT !.kind = "reset"], "capture")

\* _draw_annotations_internal, lines 413-425.
CaptureCount ==
    /\ thr.cpc = "count"
    /\ LET hand_count == Len(ctl.latest_result.hand_landmarks)
       IN  IF ctl.require_two_hands /\ hand_count # 2
           THEN ThreadStep(ResetControls(ctl), [thr EXCEPT !.cpc = "store"],
                           [trace EXCEPT !.kind = "reset"], "capture")
           ELSE ThreadStep(ctl, [thr EXCEPT !.cpc = "branch"], trace,
                           "capture")

\* _draw_annotations_internal, line 427.
CaptureBranch ==
    /\ thr.cpc = "branch"
    /\ ThreadStep(ctl,
                  [thr EXCEPT !.cpc = IF ctl.require_two_hands
                                      THEN "hands" ELSE "question"],
                  trace, "capture")

\* _resolve_left_right_hands, line 170.
CaptureResolveHands ==
    /\ thr.cpc = "hands"
    /\ ThreadStep(ctl,
                  [thr EXCEPT !.hl = ctl.latest_result.hand_landmarks,
                              !.cpc = "resolve"],
                  trace, "capture")

\* _resolve_left_right_hands, lines 171-183: an IndexError ends the thread.
CaptureResolve ==
    /\ thr.cpc = "resolve"
    /\ LET handedness == ctl.latest_result.handedness
           idx == ResolveIndices(handedness)
       IN  IF ResolveRaises(thr.hl, handedness)
           THEN ThreadStep(ctl, [thr EXCEPT !.hl = << >>, !.cpc = "crashed"],
                           [trace EXCEPT !.kind = "raised",
                                         !.used = Len(thr.hl)],
                           "capture")
           ELSE ThreadStep(ctl,
                           [thr EXCEPT !.lr = <<thr.hl[idx[1]], thr.hl[idx[2]]>>,
                                       !.hl = << >>, !.cpc = "shift"],
                           [trace EXCEPT !.kind = "two", !.used = Len(thr.hl)],
                           "capture")

\* _process_two_hands, lines 352-353.
CaptureShift ==
    /\ thr.cpc = "shift"
    /\ ThreadStep(ProcessShift(ctl, thr.lr[1], thr.lr[2]),
                  [thr EXCEPT !.cpc = "steer"], trace, "capture")

\* _process_two_hands, lines 354-361.
CaptureSteer ==
    /\ thr.cpc = "steer"
    /\ ThreadStep(ProcessSteer(ctl, thr.lr[1], thr.lr[2]),
                  [thr EXCEPT !.lr = << >>, !.cpc = "store"], trace, "capture")

\* _process_question_hands
CaptureQuestion ==
    /\ thr.cpc = "question"
    /\ ThreadStep(ProcessQuestionHands(ctl), [thr EXCEPT !.cpc = "store"],
                  [trace EXCEPT !.kind = "question"], "capture")

\* _update, line 127: with self.lock
CaptureStore ==
    /\ thr.cpc = "store"
    /\ thr.lock = "free"
    /\ ThreadStep(ctl, [thr EXCEPT !.lock = "capture", !.cpc = "publish"],
                  trace, "capture")

\* _update, line 128, and the end of the with block.
CapturePublish ==
    /\ thr.cpc = "publish"
    /\ ThreadStep(ctl, PublishFrame(thr), trace, "capture")

\* get_frame, line 473: with self.lock
GetFrameAcquire ==
    /\ thr.mpc = "tick"
    /\ thr.lock = "free"
    /\ ThreadStep(ctl, [thr EXCEPT !.lock = "main", !.mpc = "copy"], trace,
                  "main")

\* get_frame, lines 474-476: the frame is copied, the with block ends.
GetFrameCopy ==
    /\ thr.mpc = "copy"
    /\ ThreadStep(ctl,
                  [thr EXCEPT !.got = thr.annotated_frame, !.lock = "free",
                              !.mpc = "controls"],
                  trace, "main")

\* main(), lines 112-132: boosting, breaking and steer are read and the
\* shift requests consumed.
ReadControls ==
    /\ thr.mpc = "controls"
    /\ ThreadStep(ConsumeShiftRequest(ctl)[2], [thr EXCEPT !.mpc = "tick"],
                  trace, "main")

\* set_require_two_hands, called between two ticks.
GameSetRequireTwoHands(required) ==
    /\ thr.mpc = "tick"
    /\ ThreadStep([ctl EXCEPT !.require_two_hands = required], thr, trace,
                  "main")

\* stop_stream, lines 94-95.
StopCheck ==
    /\ thr.mpc = "tick"
    /\ ThreadStep(ctl,
                  [thr EXCEPT !.mpc = IF ThreadIsAlive(thr)
                                      THEN "stop_clear" ELSE "stopped"],
                  trace, "main")

\* stop_stream, line 96.
StopClear ==
    /\ thr.mpc = "stop_clear"
    /\ ThreadStep(ctl, [thr EXCEPT !.running = FALSE, !.mpc = "stop_join"],
                  [trace EXCEPT !.stop = Append(@, "clear")], "main")

\* stop_stream, lines 97-98.
StopJoin ==
    /\ thr.mpc = "stop_join"
    /\ Joined(thr)
    /\ ThreadStep(ctl, [thr EXCEPT !.mpc = "stop_release"],
                  [trace EXCEPT !.stop = Append(@, "join")], "main")

\* stop_stream, lines 100-101.
StopRelease ==
    /\ thr.mpc = "stop_release"
    /\ ThreadStep(ctl, [thr EXCEPT !.cap = "released", !.mpc = "stopped"],
                  [trace EXCEPT !.stop = Append(@, "release")], "main")

\* Obstacle.update(player_speed, screen_height, is_braking) of src/map.py on
\* the obstacle followed at the finer resolution.
UpdateTraffic(player_speed, is_braking) ==
    /\ sprite.impl = "traffic"
    /\ LET o == FineObstacleUpdate(sprite, player_speed, is_braking)
       IN  SpriteStep(o, FineObstacleKilled(o, road.height), player_speed,
                      is_braking)

\* Map.update(is_braking) of src/environment/map.py, dt ms after the last
\* clock reading, with Map.speed = speed: the freeze is decided, the road
\* scrolls unless frozen, then the crack, BR, oil spill and traffic managers
\* update in this order.  A TypeError raised by the oil spill group's update
\* leaves Map.update before the traffic manager is updated and ends the
\* program.  The tick is noted with the time of the last braking tick.
EnvMapUpdate(dt, speed, is_braking) ==
    LET t == now + dt
        until == BrakeFreezeUntil(game_map, is_braking, t)
        freeze_hazards == FreezeHazards(is_braking, t, until)
        effective_speed == IF freeze_hazards THEN 0 ELSE speed
        obstacles == game_map.obstacle_manager.obstacles
    IN  /\ ~oil_spill_manager.raised
        /\ t <= MaxMapNow
        /\ freeze_hazards => game_map.obstacle_manager.timer < MaxTimer
        /\ now' = t
        /\ bg' = IF freeze_hazards THEN bg
                 ELSE UpdateBackgroundScroll(bg, effective_speed)
        /\ \E cm \in CrackManagerUpdate(game_map.crack_manager,
                                        effective_speed, freeze_hazards) :
           \E bm \in BRManagerUpdate(game_map.br_manager, obstacles,
                                     effective_speed, freeze_hazards) :
           \E om \in OilSpillManagerUpdateEvery(
                         oil_spill_manager,
                         obstacles \o bm.brs \o cm.cracks,
                         effective_speed, freeze_hazards) :
           \E tm \in IF om.raised
                     THEN {game_map.obstacle_manager @@ [placed |-> {}]}
                     ELSE ObstacleManagerUpdate(game_map.obstacle_manager,
                                                bm.brs, effective_speed,
                                                freeze_hazards) :
               /\ game_map' =
                      [game_map EXCEPT
                          !.brake_freeze_until = until,
                          !.scroll_y =
                              IF freeze_hazards THEN @
                              ELSE ScrollMarkers(@, effective_speed),
                          !.crack_manager =
                              [timer |-> cm.timer, cracks |-> cm.cracks],
                          !.br_manager = [timer |-> bm.timer, brs |-> bm.brs],
                          !.obstacle_manager =
                              [timer |-> tm.timer, obstacles |-> tm.obstacles]]
               /\ oil_spill_manager' =
                      [timer |-> om.timer, oil_spills |-> om.oil_spills,
                       raised |-> om.raised]
               /\ lastTick' =
                      [op |-> "env_map", speed |-> speed,
                       is_braking |-> is_braking,
                       braked_at |-> IF is_braking THEN t
                                     ELSE IF lastTick.op = "env_map"
                                     THEN lastTick.braked_at ELSE -1]
        /\ UNCHANGED <<ctl, road, refused, pureVars, thrVars, carVars,
                       settings_lane_count>>
        /\ UNCHANGED <<boost_active, boost_end_time, boost_cooldown_end,
                       prev_boosting, current_gear, settings_visible>>
        /\ UNCHANGED histVars

\* The pixels scrolled since the running transition started, as noted by
\* the last step.
ScrolledSoFar ==
    IF lastTick.op \in {"scroll", "target"} THEN lastTick.scrolled ELSE 0

\* Map.update_score(score), noting whether it started a transition and
\* whether it did so in the middle of another.
SelectTarget(new_score) ==
    LET started == SetMapByScore(bg, new_score) # bg
    IN  /\ game_map' = [game_map EXCEPT !.current_score = new_score]
        /\ bg' = SetMapByScore(bg, new_score)
        /\ lastTick' = [op |-> "target", started |-> started,
                        interrupted |-> started /\ bg.is_transitioning,
                        scrolled |-> IF started THEN 0 ELSE ScrolledSoFar]
        /\ UNCHANGED <<ctl, oil_spill_manager, road, refused,
                       pureVars, thrVars, carVars, settings_lane_count>>
        /\ UNCHANGED gameVars
        /\ UNCHANGED histVars

\* Road.update_background_scroll(speed), noting the pixels scrolled since
\* the running transition started.
ScrollSince(speed) ==
    /\ bg' = UpdateBackgroundScroll(bg, speed)
    /\ lastTick' = [op |-> "scroll", speed |-> speed,
                    scrolled |-> IF bg.is_transitioning
                                 THEN ScrolledSoFar + Max(0, speed) ELSE 0]
    /\ UNCHANGED <<ctl, game_map, oil_spill_manager, road, refused,
                   pureVars, thrVars, carVars, settings_lane_count>>
    /\ UNCHANGED gameVars
    /\ UNCHANGED histVars

----------------------------------------------------------------------------
(* Specifications *)

\* The controller under every detection result; the game clock stands still.
CallbackAny == \E r \in Results : Callback(r)
SetRequireAny == \E b \in BOOLEAN : SetRequireTwoHands(b)
MainLoopStill == \E p \in BOOLEAN : MainLoop(0, p)

Next ==
    \/ CallbackAny
    \/ SetRequireAny
    \/ Update
    \/ MainLoopStill
    \/ ConsumeSwipe
    \/ ConsumeQuestionSelect

Spec == Init /\ [][Next]_vars

\* The wrists of the steering scenario move; poses stay open or pointing.
CallbackSteer == \E r \in SteerResults : Callback(r)

NextSteer ==
    \/ CallbackSteer
    \/ SetRequireAny
    \/ Update
    \/ ConsumeSwipe

SpecSteer == Init /\ [][NextSteer]_vars

\* The boost trigger of the game loop; the clock advances by Deltas.
Deltas == {0, 1000, 3000}
CallbackBoost == \E r \in BoostResults : Callback(r)
MainLoopTimed == \E dt \in Deltas, p \in BOOLEAN : MainLoop(dt, p)

NextBoost ==
    \/ CallbackBoost
    \/ Update
    \/ MainLoopTimed

SpecBoost == Init /\ [][NextBoost]_vars

\* The hazards alone: map updates and oil spill manager updates with every
\* speed and braking input.
MapUpdateAny == \E sp \in Speeds, b \in BOOLEAN : MapUpdate(sp, b)
OilSpillTickAny == \E sp \in Speeds, b \in BOOLEAN : OilSpillTick(sp, b)

NextHaz ==
    \/ MapUpdateAny
    \/ OilSpillTickAny

SpecHaz == Init /\ [][NextHaz]_vars

\* The hazards on the wide road, the map rolling at one speed and never
\* braking: the spawns find sprites of every class at both left edges.
RollingSpeeds == {1}
MapUpdateRolling == \E sp \in RollingSpeeds : MapUpdate(sp, FALSE)
OilSpillTickRolling == \E sp \in RollingSpeeds : OilSpillTick(sp, FALSE)

NextSpawn ==
    \/ MapUpdateRolling
    \/ OilSpillTickRolling

SpecSpawn == InitWide /\ [][NextSpawn]_vars

\* One sprite of each implementation under every update input.
UpdateMapObstacleAny ==
    \E ps \in BlendSpeeds, b \in BOOLEAN : UpdateMapObstacle(ps, b)
UpdateModelsObstacleAny == \E ps \in SpriteSpeeds : UpdateModelsObstacle(ps)
UpdateMapCrackAny ==
    \E sp \in SpriteSpeeds, b \in BOOLEAN : UpdateMapCrack(sp, b)
UpdateModelsCrackAny == \E sp \in SpriteSpeeds : UpdateModelsCrack(sp)
UpdateBRHazardAny ==
    \E sp \in SpriteSpeeds, b \in BOOLEAN : UpdateBRHazard(sp, b)
UpdateOilSpillAny == \E sp \in SpriteSpeeds : UpdateOilSpill(sp)

NextSprite ==
    \/ UpdateMapObstacleAny
    \/ UpdateModelsObstacleAny
    \/ UpdateMapCrackAny
    \/ UpdateModelsCrackAny
    \/ UpdateBRHazardAny
    \/ UpdateOilSpillAny

SpecSprite == InitSprite /\ [][NextSprite]_vars

\* The road geometry under every lane count and call argument.
SetLaneCountAny == \E n \in LaneCountRequests : SetLaneCount(n)
LaneSpawnXAny ==
    \E i \in 0..(MAX_LANE_COUNT - 1), w \in ObjectWidths, pad \in Paddings :
        LaneSpawnXCall(i, w, pad)
RandomLaneSpawnXAny ==
    \E w \in ObjectWidths, pad \in Paddings : RandomLaneSpawnXCall(w, pad)
ClampSpawnXToBordersAny ==
    \E x \in ProposedXs, w \in ObjectWidths, pad \in Paddings :
        ClampSpawnXToBordersCall(x, w, pad)

NextGeom ==
    \/ SetLaneCountAny
    \/ LaneSpawnXAny
    \/ RandomLaneSpawnXAny
    \/ ClampSpawnXToBordersAny

SpecGeom == InitGeom /\ [][NextGeom]_vars

\* The controller under every handedness labelling of two hands.
CallbackResolve ==
    \E r \in PoseResults \cup LabelResults \cup AmbiguousLabelResults :
        Callback(r)

NextResolve ==
    \/ CallbackResolve
    \/ SetRequireAny
    \/ Update

SpecResolve == Init /\ [][NextResolve]_vars

\* The lane count changed from the settings menu and by direct calls while
\* hazards of every class are on the road.
MapSetLaneCountAny == \E n \in LaneCountRequests : MapSetLaneCount(n)

NextLanes ==
    \/ IncreaseLaneCount
    \/ DecreaseLaneCount
    \/ SyncLaneCount
    \/ MapSetLaneCountAny
    \/ MapUpdateRolling
    \/ OilSpillTickRolling

SpecLanes == Init /\ [][NextLanes]_vars

\* The map borders under score changes and scrolling; the scores select
\* every map, also while a transition runs.
Scores == {-100, 0, 25, 30, 50, 75}
ScrollSpeeds == {0, 100, 360}
UpdateScoreAny == \E s \in Scores : UpdateScore(s)
BackgroundScrollAny == \E sp \in ScrollSpeeds : BackgroundScroll(sp)

NextBorders ==
    \/ UpdateScoreAny
    \/ BackgroundScrollAny

SpecBorders == Init /\ [][NextBorders]_vars

\* The car driven among the hazards: steering to the right, braking or not;
\* the map rolls on.
Steerings == {1}
PlayerUpdateAny ==
    \E st \in Steerings, b \in BOOLEAN : PlayerUpdate(st, b)
MapUpdateAtCarSpeedAny == MapUpdateAtCarSpeed(FALSE)
OilSpillTickAtCarSpeed ==
    OilSpillTick(TruncDiv(player.current_speed, CarUnit), FALSE)

NextCollide ==
    \/ PlayerUpdateAny
    \/ MapUpdateAtCarSpeedAny
    \/ OilSpillTickAtCarSpeed
    \/ HandleCollision

SpecCollide == Init /\ [][NextCollide]_vars

\* The capture thread, the detector's callbacks and the game loop in every
\* interleaving, started and stopped once.
CaptureReadAny == \E ret \in BOOLEAN : CaptureRead(ret)
DetectorCallbackAny == \E r \in ThreadResults : DetectorCallback(r)
GameSetRequireAny == \E b \in BOOLEAN : GameSetRequireTwoHands(b)

NextThread ==
    \/ StartStream
    \/ CaptureLoop
    \/ CaptureReadAny
    \/ CaptureDetect
    \/ DetectorCallbackAny
    \/ CaptureCheck
    \/ CaptureCount
    \/ CaptureBranch
    \/ CaptureResolveHands
    \/ CaptureResolve
    \/ CaptureShift
    \/ CaptureSteer
    \/ CaptureQuestion
    \/ CaptureStore
    \/ CapturePublish
    \/ GetFrameAcquire
    \/ GetFrameCopy
    \/ ReadControls
    \/ GameSetRequireAny
    \/ StopCheck
    \/ StopClear
    \/ StopJoin
    \/ StopRelease

SpecThread == Init /\ [][NextThread]_vars

\* One sprite updated every frame, a traffic obstacle with the brake held or
\* released.  The game loop updates every sprite group once per frame, so an
\* update that is possible is eventually made.
TrafficPlayerSpeeds == {0, 5}
UpdateTrafficAny ==
    \E ps \in TrafficPlayerSpeeds, b \in BOOLEAN : UpdateTraffic(ps, b)

NextTraffic ==
    \/ UpdateTrafficAny
    \/ UpdateMapCrackAny
    \/ UpdateModelsCrackAny
    \/ UpdateBRHazardAny
    \/ UpdateOilSpillAny

SpecTraffic == InitTraffic /\ [][NextTraffic]_vars
SpecTrafficFair == SpecTraffic /\ WF_vars(NextTraffic)

\* The map of src/environment/map.py updated at a moving clock, the score
\* switching the background map in between.
TickDeltas == {0, 1, 2}
MapSpeeds == {1, 2}
FreezeScores == {0, 25}
EnvMapUpdateAny ==
    \E dt \in TickDeltas, sp \in MapSpeeds, b \in BOOLEAN :
        EnvMapUpdate(dt, sp, b)
UpdateScoreFreeze == \E s \in FreezeScores : UpdateScore(s)

NextFreeze ==
    \/ EnvMapUpdateAny
    \/ UpdateScoreFreeze

SpecFreeze == InitFreeze /\ [][NextFreeze]_vars

\* Map transitions followed from their start.  The game loop updates the map
\* every frame, so a tick that scrolls forward is eventually made.
ForwardSpeeds == {350, 700}
SelectTargetAny == \E s \in Scores : SelectTarget(s)
ScrollForward == \E sp \in ForwardSpeeds : ScrollSince(sp)
ScrollStill == ScrollSince(0)

NextTransition ==
    \/ SelectTargetAny
    \/ ScrollForward
    \/ ScrollStill

SpecTransition == Init /\ [][NextTransition]_vars
SpecTransitionFair == SpecTransition /\ WF_vars(ScrollForward)

\* One sprite updated every frame at a map speed that stays what it was at
\* the first update; the brake is held or released on each frame.  An update
\* at map speed 0 that moves nothing leaves the sprite where it is.
SteadySpeed(speed) == spriteIn.op = "none" \/ spriteIn.speed = speed
UpdateTrafficSteady ==
    \E ps \in TrafficPlayerSpeeds, b \in BOOLEAN :
        SteadySpeed(ps) /\ UpdateTraffic(ps, b)
UpdateMapCrackSteady ==
    \E sp \in SpriteSpeeds, b \in BOOLEAN :
        SteadySpeed(sp) /\ UpdateMapCrack(sp, b)
UpdateModelsCrackSteady ==
    \E sp \in SpriteSpeeds : SteadySpeed(sp) /\ UpdateModelsCrack(sp)
UpdateBRHazardSteady ==
    \E sp \in SpriteSpeeds, b \in BOOLEAN :
        SteadySpeed(sp) /\ UpdateBRHazard(sp, b)
UpdateOilSpillSteady ==
    \E sp \in SpriteSpeeds : SteadySpeed(sp) /\ UpdateOilSpill(sp)

NextSteady ==
    \/ UpdateTrafficSteady
    \/ UpdateMapCrackSteady
    \/ UpdateModelsCrackSteady
    \/ UpdateBRHazardSteady
    \/ UpdateOilSpillSteady

SpecSteady == InitTraffic /\ [][NextSteady]_vars
SpecSteadyFair == SpecSteady /\ WF_vars(NextSteady)

----------------------------------------------------------------------------
(* Properties *)

\* A step that is a game-loop iteration running the gameplay block.
GameTick ==
    /\ ~settings_visible'
    /\ \E dt \in Deltas, p \in BOOLEAN : MainLoop(dt, p)

\* A step that processes a frame (what Update leaves alone is tested first).
FrameStep ==
    /\ lastConsumed' = "none"
    /\ ctl'.latest_result = ctl.latest_result
    /\ Update

TwoHandFrame == FrameKind(ctl) = "two" /\ FrameStep
QuestionFrame == FrameKind(ctl) = "question" /\ FrameStep

\* C1: after a frame with no hands, or with a hand count other than 2 while
\* two hands are required, every control field is neutral: steer 0, braking,
\* boosting, the shift / swipe / question-select requests and both
\* shift-active flags false.
C1_ResetNeutral ==
    lastKind = "reset" =>
        /\ ctl.steer = Neutral
        /\ ~ctl.breaking
        /\ ~ctl.boosting
        /\ ~ctl.shift_up_requested /\ ~ctl.shift_down_requested
        /\ ~ctl.question_select_requested
        /\ ~ctl.swipe_up_detected /\ ~ctl.swipe_down_detected
        /\ ~ctl.left_shift_active /\ ~ctl.right_shift_active

\* C2: in two-hand driving mode a frame raises a hand's shift request iff
\* that hand's index-only pose is active in this frame and was inactive in
\* the previous frame (inactive at the start and after a reset); left hand:
\* shift down, right hand: shift up.
C2_RisingEdge ==
    [][ (TwoHandFrame /\ lastKind \in {"none", "reset", "two"}) =>
          LET o == Observe(ctl)
          IN  /\ ctl'.shift_down_requested = (o.left /\ ~obsPrev.left)
              /\ ctl'.shift_up_requested = (o.right /\ ~obsPrev.right) ]_vars

\* A frame has just raised shift-down on the left hand's rising edge.
C2_Witness ==
    /\ lastKind = "two"
    /\ obsPrev.left /\ ~obsPrev.right
    /\ ctl.shift_down_requested /\ ~ctl.shift_up_requested

\* C3: a raised shift request is never overwritten or cleared before the
\* game loop has consumed it: the flag goes from set to clear only in a game
\* tick, whose consume_shift_request returns it.
C3_ConsumedExactlyOnce ==
    [][ /\ (ctl.shift_down_requested /\ ~ctl'.shift_down_requested) => GameTick
        /\ (ctl.shift_up_requested /\ ~ctl'.shift_up_requested) => GameTick ]_vars

\* C4: once a consume_* accessor has been called and no frame has been
\* processed since, calling it again returns no request: (False, False) for
\* the shift and swipe accessors, False for question select.
C4_SecondConsumeIsFalse ==
    /\ lastConsumed = "shift" =>
           ConsumeShiftRequest(ctl)[1] = <<FALSE, FALSE>>
    /\ lastConsumed = "swipe" =>
           ConsumeSwipeRequest(ctl)[1] = <<FALSE, FALSE>>
    /\ lastConsumed = "select" =>
           ConsumeQuestionSelectRequest(ctl)[1] = FALSE

\* The game loop has consumed a shift-up request raised by the last frame.
C4_Witness ==
    /\ lastConsumed = "shift"
    /\ lastKind = "two" /\ obsPrev.right
    /\ current_gear = 2
    /\ ~ctl.shift_up_requested

\* C5: after a two-hand frame, braking = NOT(left shift active) AND
\* NOT(right shift active) for the shift poses of that same frame's hands.
C5_BrakingFromSameFrame ==
    lastKind = "two" => (ctl.breaking = (~obsPrev.left /\ ~obsPrev.right))

\* The slope of the wrists as the fraction s, clamped to [-5, 5]:
\* (right.y - left.y) / (right.x - left.x + 1e-6), in millionths.
IsClampedSlope(s, left_wrist, right_wrist) ==
    LET num0 == (right_wrist.y - left_wrist.y) * 10000
        den0 == (right_wrist.x - left_wrist.x) * 10000 + 1
        num == IF den0 < 0 THEN -num0 ELSE num0
        den == Abs(den0)
    IN  IF num >= 5 * den THEN s = [n |-> 5, d |-> 1]
        ELSE IF num <= -5 * den THEN s = [n |-> -5, d |-> 1]
        ELSE /\ s.d > 0
             /\ den % s.d = 0
             /\ s.n * (den \div s.d) = num

SteerInRange(s) == s.d > 0 /\ -5 * s.d <= s.n /\ s.n <= 5 * s.d

\* |s - (-1/2)| < 1e-5
NearMinusHalf(s) == Abs(2 * s.n + s.d) * 100000 < 2 * s.d

WristsOf(c) ==
    LET lr == ResolveLeftRightHands(c.latest_result)
    IN  <<Landmark(lr[1], 0), Landmark(lr[2], 0)>>

ScenarioWrists(c) ==
    WristsOf(c) = <<[x |-> 30, y |-> 50], [x |-> 70, y |-> 30]>>

\* C6 as stated: every two-hand frame sets steer to the clamped wrist slope,
\* -0.5 for left wrist (0.3, 0.5) and right wrist (0.7, 0.3), and steer
\* stays in [-5, 5].
C6_SteerIsSlope ==
    /\ [](SteerInRange(ctl.steer))
    /\ [][ TwoHandFrame =>
             /\ IsClampedSlope(ctl'.steer, WristsOf(ctl)[1], WristsOf(ctl)[2])
             /\ ScenarioWrists(ctl) => NearMinusHalf(ctl'.steer) ]_vars

\* C6 amended: a two-hand frame sets steer to 0 when it sets braking, and to
\* the clamped wrist slope otherwise (-0.5 up to the epsilon for the scenario
\* wrists); steer stays in [-5, 5].
C6_SteerIsSlopeUnlessBraking ==
    /\ [](SteerInRange(ctl.steer))
    /\ [][ TwoHandFrame =>
             IF ctl'.breaking
             THEN ctl'.steer = [n |-> 0, d |-> 1]
             ELSE /\ IsClampedSlope(ctl'.steer, WristsOf(ctl)[1], WristsOf(ctl)[2])
                  /\ ScenarioWrists(ctl) => NearMinusHalf(ctl'.steer) ]_vars

\* A frame without braking has steered left by the scenario's slope.
C6_Witness ==
    /\ lastKind = "two"
    /\ ~ctl.breaking
    /\ HasHands(ctl) /\ Len(ctl.latest_result.hand_landmarks) = 2
    /\ ScenarioWrists(ctl)
    /\ NearMinusHalf(ctl.steer)

\* C7: a frame processed in question mode leaves steer 0, braking, boosting,
\* both shift requests and both shift-active flags false, and raises
\* question-select only when an index finger is closed now and was not
\* closed in the preceding question-mode frame.
C7_QuestionModeNeutral ==
    [][ QuestionFrame =>
          /\ ctl'.steer = [n |-> 0, d |-> 1]
          /\ ~ctl'.breaking /\ ~ctl'.boosting
          /\ ~ctl'.shift_up_requested /\ ~ctl'.shift_down_requested
          /\ ~ctl'.left_shift_active /\ ~ctl'.right_shift_active
          /\ ctl'.question_select_requested =>
                 /\ Observe(ctl).closed
                 /\ ~(lastKind = "question" /\ obsPrev.closed) ]_vars

\* A question-mode frame has raised question-select.
C7_Witness ==
    /\ lastKind = "question"
    /\ obsPrev.closed
    /\ ctl.question_select_requested
    /\ ~ctl.boosting

\* C8: a processed frame sets swipe-up iff a previous hand-y sample exists
\* and prevY - currentY > threshold, swipe-down iff one exists and
\* prevY - currentY < -threshold; the first frame after a reset sets neither.
C8_SwipeDetection ==
    [][ (FrameKind(ctl) # "reset" /\ FrameStep) =>
          LET y == Observe(ctl).y[1]
              has_prev == obsPrev.y # NoSample
          IN  /\ ctl'.swipe_up_detected = (has_prev /\ obsPrev.y[1] - y > 2)
              /\ ctl'.swipe_down_detected = (has_prev /\ obsPrev.y[1] - y < -2)
              /\ lastKind \in {"none", "reset"} =>
                     ~ctl'.swipe_up_detected /\ ~ctl'.swipe_down_detected ]_vars

\* A frame has detected a swipe up against the previous frame's sample.
C8_Witness ==
    /\ lastKind \in {"two", "question"}
    /\ ctl.swipe_up_detected

\* C9: boost becomes active only in a game tick that sees boosting true
\* after the previous game tick saw it false, with no boost active and more
\* than 10000 ms after the previous activation; an active boost stays on
\* until the first game tick later than 1000 ms after its activation, which
\* switches it off.
C9_BoostEdgeCooldownDuration ==
    [][ /\ (~boost_active /\ boost_active') =>
              /\ GameTick
              /\ ctl.boosting /\ ~obsBoost
              /\ lastBoostAt = -1 \/ now' - lastBoostAt > 10000
        /\ (boost_active /\ GameTick /\ now' > lastBoostAt + 1000) =>
              ~boost_active'
        /\ (boost_active /\ ~boost_active') =>
              GameTick /\ now' > lastBoostAt + 1000 ]_vars

\* A boost activated 1000 ms ago is still active at that tick.
C9_Witness ==
    /\ boost_active
    /\ lastBoostAt >= 0
    /\ now = lastBoostAt + 1000
    /\ prev_boosting

\* C10: in every reachable state each hazard class has at most as many
\* active sprites as its configured maximum.
C10_CountWithinMax ==
    /\ Len(game_map.obstacle_manager.obstacles) <= max_obstacles
    /\ Len(game_map.crack_manager.cracks) <= MAX_CRACKS
    /\ Len(game_map.br_manager.brs) <= MAX_BRS
    /\ Len(oil_spill_manager.oil_spills) <= MAX_OIL_SPILLS

\* Every class has had a due spawn refused on a full group, and every
\* group is full.
C10_Witness ==
    /\ refused = {"traffic", "crack", "br", "oil"}
    /\ Len(game_map.obstacle_manager.obstacles) = max_obstacles
    /\ Len(game_map.crack_manager.cracks) = MAX_CRACKS
    /\ Len(game_map.br_manager.brs) = MAX_BRS
    /\ Len(oil_spill_manager.oil_spills) = MAX_OIL_SPILLS

\* C11: on every tick with braking-freeze active no manager adds a hazard
\* to its group, also when its spawn is due and its class is below its
\* maximum: the crack, BR and oil spill groups are unchanged, the traffic
\* group does not grow, and no spawn is recorded.
C11_NoSpawnWhileFrozen ==
    [][lastTick'.is_braking =>
          /\ lastTick'.placed = {}
          /\ lastTick'.op = "map" =>
                /\ game_map'.crack_manager.cracks = game_map.crack_manager.cracks
                /\ game_map'.br_manager.brs = game_map.br_manager.brs
                /\ Len(game_map'.obstacle_manager.obstacles)
                      <= Len(game_map.obstacle_manager.obstacles)
          /\ lastTick'.op = "oil" =>
                oil_spill_manager'.oil_spills = oil_spill_manager.oil_spills]_vars

\* A braking map update has found the crack, BR and traffic spawns all due
\* and all three classes below their maximum.
C11_Witness ==
    /\ lastTick.op = "map"
    /\ lastTick.is_braking
    /\ lastTick.due = {"crack", "br", "traffic"}

\* The horizontal extents of a hazard placed at pos and of the sprite s
\* overlap; s lies vertically within three hazard heights of pos.
HOverlap(pos, s) == s.x < pos.x + HazardWidth /\ pos.x < s.x + HazardWidth
VNear(pos, s) == Abs(RectY(s) - pos.y) < 3 * HazardHeight

\* The group of a class when its manager's update begins.
OwnGroup(class) ==
    CASE class = "traffic" -> game_map.obstacle_manager.obstacles
      [] class = "crack" -> game_map.crack_manager.cracks
      [] class = "br" -> game_map.br_manager.brs
      [] class = "oil" -> oil_spill_manager.oil_spills

\* C12: a hazard of any class placed before the placement attempts are
\* exhausted does not both horizontally overlap and lie vertically within
\* three heights of a hazard already active in its class.
C12_SameClassClear ==
    [][\A p \in lastTick'.placed :
          ~p.exhausted =>
              ~\E s \in Range(OwnGroup(p.class)) :
                  HOverlap(p.pos, s) /\ VNear(p.pos, s)]_vars

\* The sprites of the blocking groups registered for a class, as its spawn
\* finds them: the traffic manager updates after the BR manager.
BlockingSprites(class) ==
    CASE class = "traffic" -> Range(game_map'.br_manager.brs)
      [] class = "br" -> Range(game_map.obstacle_manager.obstacles)
      [] class = "oil" -> Range(game_map.obstacle_manager.obstacles)
                          \cup Range(game_map.br_manager.brs)
                          \cup Range(game_map.crack_manager.cracks)
      [] class = "crack" -> {}

\* C13: a hazard placed before the placement attempts are exhausted
\* horizontally overlaps no hazard of its manager's blocking groups, at any
\* vertical distance.
C13_BlockingGroupsClear ==
    [][\A p \in lastTick'.placed :
          ~p.exhausted =>
              ~\E s \in BlockingSprites(p.class) : HOverlap(p.pos, s)]_vars

\* The group of a class when its manager's update ends.
OwnGroupAfter(class) ==
    CASE class = "traffic" -> game_map'.obstacle_manager.obstacles
      [] class = "crack" -> game_map'.crack_manager.cracks
      [] class = "br" -> game_map'.br_manager.brs
      [] class = "oil" -> oil_spill_manager'.oil_spills

\* The spawn p added exactly one sprite, at the left edge of its position:
\* the group ends with it and grew by at most one.
AddedOne(p) ==
    LET before == OwnGroup(p.class)
        after == OwnGroupAfter(p.class)
    IN  /\ Len(after) >= 1
        /\ Len(after) <= Len(before) + 1
        /\ after[Len(after)].x = p.pos.x

ObstacleUpdated == sprite.impl \in ObstacleImpls /\ spriteIn.op = "update"

C16_ScrollOrFreeze ==
    [][(/\ sprite.impl \in {"map.Crack", "BRHazard", "models.OilSpill"}
        /\ sprite.alive
        /\ spriteIn'.op = "update")
       => IF spriteIn'.is_braking
          THEN sprite'.y = sprite.y /\ sprite'.alive
          ELSE sprite'.y = sprite.y + Max(1, spriteIn'.speed)]_vars

\* C17: an update removes a hazard exactly when it leaves the hazard fully
\* off-screen (top below screenHeight + height or, for traffic only, bottom
\* above -height), so on the first such update; a hazard is never removed
\* while part of it is within [0, screenHeight], and a crack, BR hazard or
\* oil spill is never removed at the top edge.
C17_RemovedWhenOffScreen ==
    [][(sprite.alive /\ spriteIn'.op = "update")
       => LET top == RectY(sprite')
              bottom == top + HazardHeight
              traffic == sprite.impl \in ObstacleImpls
              removed == ~sprite'.alive
          IN  /\ removed <=> (\/ top > road.height + HazardHeight
                              \/ traffic /\ bottom < -HazardHeight)
              /\ removed => ~(bottom >= 0 /\ top <= road.height)
              /\ (removed /\ ~traffic) => top > road.height + HazardHeight]_vars

\* A crack has been removed by the update that put its top one pixel past
\* screenHeight + height.
C17_Witness ==
    /\ sprite.impl = "models.Crack"
    /\ spriteIn.op = "update"
    /\ ~sprite.alive
    /\ RectY(sprite) = road.height + HazardHeight + 1

\* The summed Lane.width of lanes 0..i of the road.
RECURSIVE SumLaneWidths(_, _)
SumLaneWidths(self, i) ==
    IF i < 0 THEN 0
    ELSE LaneWidth(GetLane(self, i)) + SumLaneWidths(self, i - 1)

\* C18: for every lane count n in [MIN_LANE_COUNT, MAX_LANE_COUNT] the lanes
\* get_lane(0..n-1) are contiguous, non-overlapping and gap-free, lane 0
\* starts at the road's left x, lane n-1 ends at x + width, and the lane
\* widths sum to the road width.
C18_LanesTileRoad ==
    LET n == road.lane_count
    IN  /\ n \in MIN_LANE_COUNT..MAX_LANE_COUNT
        /\ GetLane(road, 0).left = road.x
        /\ GetLane(road, n - 1).right = road.x + road.width
        /\ \A i \in 0..(n - 2) :
               GetLane(road, i).right = GetLane(road, i + 1).left
        /\ \A i \in 0..(n - 1) :
               /\ GetLane(road, i).index = i
               /\ GetLane(road, i).left < GetLane(road, i).right
        /\ SumLaneWidths(road, n - 1) = road.width

\* set_lane_count has set the largest lane count on a road whose width it
\* does not divide and whose left x is not zero.
C18_Witness ==
    /\ geom.op = "set_lane_count"
    /\ road.lane_count = MAX_LANE_COUNT
    /\ road.width % road.lane_count # 0
    /\ road.x # 0

\* x is inside [lane.left + padding, lane.right - objectWidth - padding].
InPaddedRange(lane, object_width, padding, x) ==
    lane.left + padding <= x /\ x <= lane.right - object_width - padding

\* That range is empty.
DegenerateRange(lane, object_width, padding) ==
    lane.right - object_width - padding < lane.left + padding

\* x centers the object in the lane, to the pixel.
CenteredInLane(lane, object_width, x) ==
    Abs(2 * (x - lane.left) - (LaneWidth(lane) - object_width)) <= 1

\* The result the claim gives a lane call.
SpawnXAsStated(lane, object_width, padding, x) ==
    IF DegenerateRange(lane, object_width, padding)
    THEN CenteredInLane(lane, object_width, x)
    ELSE InPaddedRange(lane, object_width, padding, x)

\* The result with an object wider than the lane left-aligned.
SpawnXLeftAligned(lane, object_width, padding, x) ==
    IF ~DegenerateRange(lane, object_width, padding)
    THEN InPaddedRange(lane, object_width, padding, x)
    ELSE IF object_width <= LaneWidth(lane)
         THEN CenteredInLane(lane, object_width, x)
         ELSE x = lane.left

\* C19 (as stated): the lane spawn-x lies inside [lane.left + padding,
\* lane.right - objectWidth - padding]; when that range is degenerate it is
\* the x that centers the object in the lane, also when the object is wider
\* than the lane.
C19_InRangeOrCentered ==
    /\ geom.op = "lane_spawn_x" =>
          SpawnXAsStated(geom.lane, geom.object_width, geom.min_padding,
                         geom.result)
    /\ geom.op = "random_lane_spawn_x" =>
          \E lane \in RandomLane(road) :
              SpawnXAsStated(lane, geom.object_width, geom.min_padding,
                             geom.result)

\* C19 (amended): the lane spawn-x lies inside [lane.left + padding,
\* lane.right - objectWidth - padding]; when that range is degenerate and the
\* object is no wider than the lane it is the x that centers the object in
\* the lane, to the pixel; when the object is wider than the lane it is
\* lane.left.
C19_InRangeCenteredOrLeft ==
    /\ geom.op = "lane_spawn_x" =>
          SpawnXLeftAligned(geom.lane, geom.object_width, geom.min_padding,
                            geom.result)
    /\ geom.op = "random_lane_spawn_x" =>
          \E lane \in RandomLane(road) :
              SpawnXLeftAligned(lane, geom.object_width, geom.min_padding,
                                geom.result)

\* _lane_spawn_x has been called with an object at least two pixels wider
\* than the lane and has returned the lane's left edge.
C19_Witness ==
    /\ geom.op = "lane_spawn_x"
    /\ geom.object_width > LaneWidth(geom.lane) + 1
    /\ geom.result = geom.lane.left

\* The clamp call's borders, padding and valid range.
ClampCalled == geom.op = "clamp_spawn_x_to_borders"
ClampSpan == road.active_border_right - road.active_border_left
ClampMinLeft == road.active_border_left + Max(0, geom.min_padding)
ClampMaxLeft ==
    road.active_border_right - geom.object_width - Max(0, geom.min_padding)

\* The clamp result while the object is no wider than the border span.
ClampFits ==
    IF ClampMinLeft <= ClampMaxLeft
    THEN /\ ClampMinLeft <= geom.result
         /\ geom.result <= ClampMaxLeft
         /\ (ClampMinLeft <= geom.spawn_x /\ geom.spawn_x <= ClampMaxLeft
                => geom.result = geom.spawn_x)
    ELSE geom.result = road.active_border_left
                       + (ClampSpan - geom.object_width) \div 2

\* C20 (as stated): clamp_spawn_x_to_borders returns x within [leftBorder +
\* padding, rightBorder - objectWidth - padding] when that range is not empty,
\* spawn_x itself when it lies in the range; with an empty range it centers
\* the object within the borders, and an object wider than the border span
\* is put flush against the right border.
C20_ClampCenterOrFlushRight ==
    ClampCalled =>
        IF geom.object_width <= ClampSpan
        THEN ClampFits
        ELSE geom.result = road.active_border_right - geom.object_width

\* C20 (amended): as stated, except that an object wider than the border
\* span is put at the left border.
C20_ClampCenterOrLeftBorder ==
    ClampCalled =>
        IF geom.object_width <= ClampSpan
        THEN ClampFits
        ELSE geom.result = road.active_border_left

\* clamp_spawn_x_to_borders has been called with an object wider than the
\* border span and has returned the left border.
C20_Witness ==
    /\ ClampCalled
    /\ geom.object_width > ClampSpan
    /\ geom.result = road.active_border_left

\* The handedness labels name one hand Left and the other Right.
LabelsDistinguish(handedness) ==
    /\ Len(handedness) = 2
    /\ {handedness[1], handedness[2]} = {"Left", "Right"}

\* The (left, right) hands of a two-hand result as stated: the labelled
\* hands when the labels tell them apart, else detector order.
HandsAsStated(result) ==
    LET hands == result.hand_landmarks
        handedness == result.handedness
    IN  IF LabelsDistinguish(handedness)
        THEN IF handedness[1] = "Left" THEN <<hands[1], hands[2]>>
             ELSE <<hands[2], hands[1]>>
        ELSE <<hands[1], hands[2]>>

\* C30 (as stated): a two-hand frame is handled on two distinct hands, the
\* ones labelled Left and Right when the labels tell them apart, otherwise
\* (labels missing, or the same label twice) the first detected hand as left
\* and the second as right.
C30_ResolvedAsStated ==
    [][ TwoHandFrame =>
            LET h == HandsAsStated(ctl.latest_result)
            IN  ctl' = ProcessSteer(ProcessShift(ctl, h[1], h[2]), h[1], h[2]) ]_vars

\* Processing c into again raises no one-shot request: each request flag
\* set afterwards was set before.
RaisesNoRequest(c, again) ==
    /\ again.shift_up_requested => c.shift_up_requested
    /\ again.shift_down_requested => c.shift_down_requested
    /\ again.swipe_up_detected => c.swipe_up_detected
    /\ again.swipe_down_detected => c.swipe_down_detected
    /\ again.question_select_requested => c.question_select_requested

\* C29 (as stated): a frame processed on the result the frame before it was
\* processed on changes nothing: steer, braking, boosting and the sustained
\* poses keep their values, and no one-shot request is raised.
C29_SecondFrameIdempotent ==
    [][ FrameStep =>
            LET again == DrawAnnotationsInternal(ctl')
            IN  /\ again.steer = ctl'.steer
                /\ again.breaking = ctl'.breaking
                /\ again.boosting = ctl'.boosting
                /\ again.left_shift_active = ctl'.left_shift_active
                /\ again.right_shift_active = ctl'.right_shift_active
                /\ RaisesNoRequest(ctl', again) ]_vars

\* C29 without braking and steer: the part of the statement that does not
\* depend on the order of lines 352 and 353.
C29_OtherFieldsIdempotent ==
    [][ FrameStep =>
            LET again == DrawAnnotationsInternal(ctl')
            IN  /\ again.boosting = ctl'.boosting
                /\ again.left_shift_active = ctl'.left_shift_active
                /\ again.right_shift_active = ctl'.right_shift_active
                /\ RaisesNoRequest(ctl', again) ]_vars

LaneCounts == MIN_LANE_COUNT..MAX_LANE_COUNT

\* Every hazard group and spawn timer.
Hazards == <<game_map, oil_spill_manager>>

\* C21: the road's and the settings' lane count stay within
\* [MIN_LANE_COUNT, MAX_LANE_COUNT] after every set_lane_count, whatever
\* integer is requested, and after every increase / decrease of the setting;
\* a step that changes the lane count changes nothing else of the road and
\* leaves the hazards, their positions and the spawn timers as they were.
C21_LaneCountClamped ==
    [][ /\ road'.lane_count \in LaneCounts
        /\ settings_lane_count' \in LaneCounts
        /\ (road'.lane_count # road.lane_count
              \/ settings_lane_count' # settings_lane_count) =>
               /\ road' = [road EXCEPT !.lane_count = road'.lane_count]
               /\ Hazards' = Hazards ]_vars

\* A request above the maximum was applied with hazards of every class on
\* the road, and the settings were stepped down to the minimum.
C21_Witness ==
    /\ lastTick.op = "set_lane_count"
    /\ lastTick.lane_count > MAX_LANE_COUNT
    /\ road.lane_count = MAX_LANE_COUNT
    /\ settings_lane_count = MIN_LANE_COUNT
    /\ game_map.obstacle_manager.obstacles # << >>
    /\ game_map.crack_manager.cracks # << >>
    /\ game_map.br_manager.brs # << >>
    /\ oil_spill_manager.oil_spills # << >>

\* The active borders, and the bounds of the transition's two maps.
ActiveBorders(b) == <<b.active_border_left, b.active_border_right>>
FromBounds(b) == GetMapBorders(b.transition_from_map_index)
ToBounds(b) == GetMapBorders(b.transition_to_map_index)

\* x lies between a and b.
Between(a, x, b) == (a <= x /\ x <= b) \/ (b <= x /\ x <= a)

\* The borders at the two ends of a transition: the source map's bounds at
\* progress 0.0, the target map's bounds once progress has reached 1.0.
BordersAtEnds(b) ==
    /\ b.is_transitioning => b.transition_progress_px < MAP_TRANSITION_DISTANCE
    /\ (b.is_transitioning /\ b.transition_progress_px = 0) =>
           ActiveBorders(b) = FromBounds(b)
    /\ ~b.is_transitioning => ActiveBorders(b) = ToBounds(b)

\* A step within one transition: its two maps stay, progress does not fall.
SameTransition ==
    /\ bg.is_transitioning
    /\ bg'.transition_from_map_index = bg.transition_from_map_index
    /\ bg'.transition_to_map_index = bg.transition_to_map_index
    /\ bg'.transition_progress_px >= bg.transition_progress_px

\* Border i stays between the two maps' bounds and does not move away from
\* the target map's.
MovesTowardsTarget(i) ==
    /\ Between(FromBounds(bg)[i], ActiveBorders(bg')[i], ToBounds(bg)[i])
    /\ Abs(ToBounds(bg)[i] - ActiveBorders(bg')[i])
           <= Abs(ToBounds(bg)[i] - ActiveBorders(bg)[i])

\* C22: during a map transition the road borders equal the source map's
\* bounds at progress 0.0 and the target map's bounds at progress 1.0, and
\* in between each border moves monotonically from the one to the other.
C22_BordersFollowTransition ==
    [][ /\ BordersAtEnds(bg) /\ BordersAtEnds(bg')
        /\ SameTransition => MovesTowardsTarget(1) /\ MovesTowardsTarget(2) ]_vars

\* A transition between maps of different bounds is under way, its borders
\* strictly between the two maps' bounds.
C22_Witness ==
    /\ bg.is_transitioning
    /\ bg.transition_progress_px > 0
    /\ FromBounds(bg)[1] < bg.active_border_left
    /\ bg.active_border_left < ToBounds(bg)[1]
    /\ ToBounds(bg)[2] < bg.active_border_right
    /\ bg.active_border_right < FromBounds(bg)[2]

\* A step that handles a collision.
CollisionHandled == lastTick' # lastTick /\ lastTick'.op = "collision"

\* C28: on every tick where the player collides with a traffic obstacle,
\* after the handling the car's current speed and lateral velocity are 0
\* and the score is lower by exactly the collision penalty, however many
\* obstacles were hit; the traffic not hit, the other hazards and every
\* spawn timer are as before.
C28_CollisionStopsCar ==
    [][ CollisionHandled =>
            /\ player'.current_speed = 0
            /\ player'.velocity_x = 0
            /\ player'.x = player.x
            /\ score' = score - car_collision_deduction_pts
            /\ game_map'.obstacle_manager.obstacles =
                   Survivors(player, game_map.obstacle_manager.obstacles)
            /\ game_map'.obstacle_manager.timer =
                   game_map.obstacle_manager.timer
            /\ game_map'.crack_manager = game_map.crack_manager
            /\ game_map'.br_manager = game_map.br_manager
            /\ game_map'.scroll_y = game_map.scroll_y
            /\ oil_spill_manager' = oil_spill_manager ]_vars

\* A moving, steering car has hit two obstacles at once with hazards of the
\* other classes and another obstacle on the road.
C28_Witness ==
    /\ lastTick.op = "collision"
    /\ lastTick.hit = 2
    /\ lastTick.current_speed > 0
    /\ lastTick.velocity_x # 0
    /\ player.current_speed = 0
    /\ game_map.obstacle_manager.obstacles # << >>
    /\ game_map.crack_manager.cracks # << >>
    /\ game_map.br_manager.brs # << >>
    /\ oil_spill_manager.oil_spills # << >>

\* A step in which the game loop reads the control fields.
ControlsRead == thr.mpc = "controls" /\ thr'.mpc = "tick"

\* C23 (as stated): every write of the latest result and of the control
\* flags, and every read or read-and-clear of them by the game loop, is
\* made by a thread that holds the controller's lock.
C23_SharedStateUnderLock ==
    [][ (ctl' # ctl \/ ControlsRead) => thr.lock = trace'.by ]_vars

\* C24: the lock is held only while the capture thread stores the annotated
\* frame and while get_frame copies it, never during a camera read, a
\* detection submission or the gesture computation; whoever holds it can
\* release it at once, so a game tick never waits for a detection result.
C24_LockOnlyAroundFrame ==
    /\ thr.lock = "capture" <=> thr.cpc = "publish"
    /\ thr.lock = "main" <=> thr.mpc = "copy"
    /\ thr.lock = "capture" => ENABLED CapturePublish
    /\ thr.lock = "main" => ENABLED GetFrameCopy

\* The game loop is about to call get_frame while the capture thread holds
\* the lock with a detection result still outstanding.
C24_Witness ==
    /\ thr.mpc = "tick"
    /\ thr.lock = "capture"
    /\ thr.pending > 0
    /\ thr.annotated_frame # NoFrame

\* The steps of stop_stream taken so far are the first of clear, join,
\* release.
StopInOrder ==
    \E n \in 0..3 : trace.stop = SubSeq(<<"clear", "join", "release">>, 1, n)

\* C25: stop_stream on a live capture thread clears the running flag, then
\* joins the thread, then releases the camera; the capture thread makes no
\* camera read and no detection submission after the release.
C25_StopThenJoinThenRelease ==
    /\ StopInOrder
    /\ ~trace.late
    /\ thr.cap = "released" =>
           /\ ~thr.running
           /\ ~ThreadIsAlive(thr)
           /\ trace.stop = <<"clear", "join", "release">>

\* The stream was stopped while the capture thread was processing frames:
\* the thread has left its loop and the camera is released.
C25_Witness ==
    /\ thr.cap = "released"
    /\ thr.cpc = "exited"
    /\ thr.mpc = "stopped"
    /\ thr.annotated_frame # NoFrame

\* C26 (as stated): under every interleaving of callbacks delivering
\* results of 0, 1 or 2 hands with frame processing, processing never
\* raises, and a frame handled as two-hand driving is handled on a result
\* that has two hands.
C26_ProcessingNeverRaises ==
    /\ thr.cpc # "crashed"
    /\ trace.kind # "raised"
    /\ trace.kind = "two" => trace.used = 2

\* A step that is a failed camera read.
ReadFailure ==
    /\ thr.cpc = "read"
    /\ thr' # thr
    /\ trace'.by = "capture"
    /\ trace'.reads = "failed"

\* C27: a failed camera read does not end the capture loop and raises
\* nothing, submits no detection, and leaves the annotated frame and the
\* control outputs as they were; the loop tests the running flag again and
\* goes on to the next read.
C27_ReadFailureSkipsFrame ==
    [][ ReadFailure =>
            /\ thr'.cpc = "loop"
            /\ thr'.pending = thr.pending
            /\ thr'.annotated_frame = thr.annotated_frame
            /\ thr'.running = thr.running
            /\ thr'.lock = thr.lock
            /\ ctl' = ctl ]_vars

\* After a failed read the next successful read's frame has been processed
\* and is being stored.
C27_Witness ==
    /\ trace.reads = "recovered"
    /\ thr.cpc = "publish"
    /\ thr.running

\* C40: the current gear is always within [1, 5]; a game tick that consumes
\* a shift-down request alone lowers it by one but not below 1, one that
\* consumes a shift-up request alone raises it by one but not above 5, and
\* a tick that consumes both, or neither, leaves it unchanged.
C40_GearWithinRange ==
    [][ /\ current_gear \in 1..5 /\ current_gear' \in 1..5
        /\ GameTick =>
              LET down == ctl.shift_down_requested
                  up == ctl.shift_up_requested
              IN  /\ (down /\ ~up) =>
                         current_gear' =
                             IF current_gear = 1 THEN 1 ELSE current_gear - 1
                  /\ (up /\ ~down) =>
                         current_gear' =
                             IF current_gear = 5 THEN 5 ELSE current_gear + 1
                  /\ (down = up) => current_gear' = current_gear
        /\ ~GameTick => current_gear' = current_gear ]_vars

\* The game loop has consumed the shift requests with the top gear engaged,
\* and the last frame showed both hands in the index-only pose.
C40_Witness ==
    /\ lastConsumed = "shift"
    /\ current_gear = max_manual_gear
    /\ lastKind = "two" /\ obsPrev.left /\ obsPrev.right
    /\ ~ctl.shift_down_requested /\ ~ctl.shift_up_requested

\* An update of the followed traffic obstacle, as the claim states it: the
\* direction factor stays in [-1, 1], moves towards -1 with the brake held
\* and towards +1 without, by 0.18 of the distance left (to the resolution),
\* and _y_pos moves by speed * direction_factor.
TrafficUpdatedAsStated ==
    LET df == sprite.direction_factor
        df2 == sprite'.direction_factor
        braking == spriteIn'.is_braking
        target == IF braking THEN -FineUnit ELSE FineUnit
    IN  /\ -FineUnit <= df2 /\ df2 <= FineUnit
        /\ braking => df2 <= df /\ (df > -FineUnit => df2 < df)
        /\ ~braking => df2 >= df /\ (df < FineUnit => df2 > df)
        /\ Abs(100 * (df2 - df) - 18 * (target - df)) < 100
        /\ sprite'.y_pos - sprite.y_pos = sprite'.speed * df2
        /\ df2 < 0 => sprite'.y_pos < sprite.y_pos

\* C31: every update of a traffic obstacle keeps its direction factor within
\* [-1, 1], moves it monotonically towards -1 on a braking tick and towards
\* +1 otherwise, by 0.18 of the remaining distance, and changes y by
\* speed x directionFactor; with the brake held from some tick on, a traffic
\* obstacle still on the road eventually has a negative direction factor,
\* with which it moves upward; a crack, BR or oil spill never moves upward.
C31_TrafficReversesHazardsDoNot ==
    /\ [][ /\ sprite.impl = "traffic" => TrafficUpdatedAsStated
           /\ sprite.impl \in HazardImpls => sprite'.y >= sprite.y ]_vars
    /\ <>[](sprite.impl = "traffic" /\ spriteIn.is_braking)
           => <>(~sprite.alive \/ (sprite.impl = "traffic"
                                    /\ sprite.direction_factor < 0))

\* A traffic obstacle that moved down onto the screen has reversed under
\* braking and is above the place it was built at, still on the road.
C31_Witness ==
    /\ sprite.impl = "traffic" /\ sprite.alive
    /\ spriteIn.op = "update" /\ spriteIn.is_braking
    /\ sprite.direction_factor < 0
    /\ sprite.y_pos < -HazardHeight * FineUnit * FineUnit

\* C32: on a tick with braking-freeze active every manager's update leaves
\* its spawn timer unchanged, identically for the traffic, crack, BR and oil
\* spill managers.
C32_TimersFrozenWhileBraking ==
    [][lastTick'.is_braking =>
          /\ lastTick'.op = "map" =>
                /\ game_map'.crack_manager.timer = game_map.crack_manager.timer
                /\ game_map'.br_manager.timer = game_map.br_manager.timer
                /\ game_map'.obstacle_manager.timer
                       = game_map.obstacle_manager.timer
          /\ lastTick'.op = "oil" =>
                oil_spill_manager'.timer = oil_spill_manager.timer]_vars

\* The same for the crack, BR and oil spill managers alone.
C32_HazardTimersFrozenWhileBraking ==
    [][lastTick'.is_braking =>
          /\ lastTick'.op = "map" =>
                /\ game_map'.crack_manager.timer = game_map.crack_manager.timer
                /\ game_map'.br_manager.timer = game_map.br_manager.timer
          /\ lastTick'.op = "oil" =>
                oil_spill_manager'.timer = oil_spill_manager.timer]_vars

\* A step that is a Map.update of src/environment/map.py (a frozen one moves
\* the traffic timer, any other the background; no other step does either),
\* and the freeze as the claim states it: braking is reported on this tick,
\* or the tick is earlier than BRAKE_HAZARD_FREEZE_MS after the most recent
\* braking tick.
EnvMapTick ==
    \/ now' # now
    \/ game_map'.obstacle_manager # game_map.obstacle_manager
    \/ bg'.bg_y_offset # bg.bg_y_offset
FreezeExpected ==
    \/ lastTick'.is_braking
    \/ /\ lastTick'.braked_at >= 0
       /\ now' < lastTick'.braked_at + game_map.brake_hazard_freeze_ms

\* Every manager has been updated with speed 0 and braking = true.
ManagersFrozen ==
    /\ \E cm \in CrackManagerUpdate(game_map.crack_manager, 0, TRUE) :
           game_map'.crack_manager = [timer |-> cm.timer, cracks |-> cm.cracks]
    /\ \E bm \in BRManagerUpdate(game_map.br_manager,
                                 game_map.obstacle_manager.obstacles, 0, TRUE) :
           game_map'.br_manager = [timer |-> bm.timer, brs |-> bm.brs]
    /\ \E om \in OilSpillManagerUpdateEvery(oil_spill_manager, << >>, 0, TRUE) :
           /\ ~om.raised
           /\ oil_spill_manager' = [timer |-> om.timer,
                                    oil_spills |-> om.oil_spills,
                                    raised |-> FALSE]
    /\ \E tm \in ObstacleManagerUpdate(game_map.obstacle_manager,
                                       game_map'.br_manager.brs, 0, TRUE) :
           game_map'.obstacle_manager =
               [timer |-> tm.timer, obstacles |-> tm.obstacles]
    /\ game_map'.crack_manager.cracks = game_map.crack_manager.cracks
    /\ game_map'.br_manager.brs = game_map.br_manager.brs
    /\ oil_spill_manager'.oil_spills = oil_spill_manager.oil_spills

InterpolatedBorders(b, num, den) ==
    << TruncDiv(FromBounds(b)[1] * den
                    + (ToBounds(b)[1] - FromBounds(b)[1]) * num, den),
       TruncDiv(FromBounds(b)[2] * den
                    + (ToBounds(b)[2] - FromBounds(b)[2]) * num, den) >>

\* A scroll tick during a transition: short of the transition distance the
\* transition goes on, its borders interpolated at the pixels scrolled since
\* its start; at the distance it ends on the target map's bounds.
TransitionScrolledAsStated ==
    LET scrolled == lastTick'.scrolled
    IN  IF scrolled < MAP_TRANSITION_DISTANCE
        THEN /\ bg'.is_transitioning
             /\ bg'.transition_from_map_index = bg.transition_from_map_index
             /\ bg'.transition_to_map_index = bg.transition_to_map_index
             /\ bg'.transition_progress_px = scrolled
             /\ ActiveBorders(bg') =
                    InterpolatedBorders(bg, scrolled, MAP_TRANSITION_DISTANCE)
        ELSE /\ ~bg'.is_transitioning
             /\ ActiveBorders(bg') = ToBounds(bg)
             /\ bg'.current_map_index = bg.transition_to_map_index

\* C34: while no other target map is selected, a transition started by
\* set_map_by_score stays in progress, its borders interpolated at
\* scrolledPixels / MAP_TRANSITION_DISTANCE, until the pixels scrolled since
\* its start reach MAP_TRANSITION_DISTANCE; on that tick it ends with the
\* active borders equal to the target map's bounds; and with ticks that
\* scroll by at least 1 every started transition eventually ends, or is
\* replaced by a transition to another target.
C34_TransitionRunsToTarget ==
    /\ [][ /\ (lastTick'.op = "scroll" /\ bg.is_transitioning)
                => TransitionScrolledAsStated
           /\ (lastTick'.op = "target" /\ ~lastTick'.started) => bg' = bg
           /\ (lastTick'.op = "target" /\ lastTick'.started)
                => /\ bg'.is_transitioning
                   /\ bg'.transition_progress_px = 0
                   /\ ActiveBorders(bg') = FromBounds(bg') ]_vars
    /\ \A target \in 0..(Len(MapBorderBounds) - 1) :
           (bg.is_transitioning /\ bg.transition_to_map_index = target)
               ~> (~bg.is_transitioning \/ bg.transition_to_map_index # target)

\* A transition between maps of different bounds has ended on the tick its
\* scrolled pixels passed the transition distance.
C34_Witness ==
    /\ lastTick.op = "scroll"
    /\ lastTick.scrolled > MAP_TRANSITION_DISTANCE
    /\ lastTick.scrolled - lastTick.speed < MAP_TRANSITION_DISTANCE
    /\ ~bg.is_transitioning
    /\ FromBounds(bg) # ToBounds(bg)
    /\ ActiveBorders(bg) = ToBounds(bg)

\* C35: after any sequence of set_map_by_score and update_background_scroll
\* calls, also with a new target chosen in the middle of a transition:
\* current_map_index is (score // MAP_SWITCH_SCORE) mod the number of maps
\* for the last score applied; with no transition in progress the active
\* borders equal that map's bounds; during a transition each active border
\* lies between the from-map's and the to-map's bound; and the left border
\* is always strictly less than the right border.
C35_BordersMatchMap ==
    /\ bg.current_map_index =
           FloorDiv(game_map.current_score, MAP_SWITCH_SCORE)
               % Len(MapBorderBounds)
    /\ ~bg.is_transitioning =>
           ActiveBorders(bg) = GetMapBorders(bg.current_map_index)
    /\ bg.is_transitioning =>
           /\ Between(FromBounds(bg)[1], bg.active_border_left, ToBounds(bg)[1])
           /\ Between(FromBounds(bg)[2], bg.active_border_right,
                      ToBounds(bg)[2])
    /\ bg.active_border_left < bg.active_border_right

\* A new target has been chosen in the middle of a transition: the new
\* transition, between maps of different bounds, starts on the bounds of the
\* map the interrupted one was heading to.
C35_Witness ==
    /\ lastTick.op = "target" /\ lastTick.interrupted
    /\ bg.is_transitioning
    /\ game_map.current_score < 0
    /\ FromBounds(bg)[1] # ToBounds(bg)[1]
    /\ bg.active_border_left = FromBounds(bg)[1]

\* The first update of the followed traffic obstacle, made in the manager
\* tick that built it: not braking, at the speed the obstacle was built
\* with.
SpawnTickUpdate ==
    /\ sprite.impl = "map.Obstacle"
    /\ spriteIn.op = "none"
    /\ spriteIn'.op = "update"
    /\ ~spriteIn'.is_braking
    /\ spriteIn'.speed * SubPixel = sprite.speed

\* C36: a traffic obstacle spawned on a non-braking tick is not removed by
\* the top-edge rule in that tick: for every spawn jitter and obstacle
\* height the update that runs in the same manager tick leaves the new
\* obstacle short of the position at which it is killed at the top.
C36_SpawnedObstacleSurvivesTick ==
    [][SpawnTickUpdate => ~PastTop(sprite')]_vars

\* The same for an obstacle built right above the top edge (jitter 0).
C36_FlushObstacleSurvivesTick ==
    [][(SpawnTickUpdate /\ RectY(sprite) = -HazardHeight)
           => ~PastTop(sprite')]_vars

\* C37: if the brake is held on only finitely many ticks, then at any
\* non-negative map speed every hazard of every class is eventually removed
\* from its group.
C37_EveryHazardEventuallyRemoved ==
    (<>[](~spriteIn.is_braking)) => <>(~sprite.alive)

\* The same for every class but the oil spill.
C37_OtherHazardsEventuallyRemoved ==
    (<>[](~spriteIn.is_braking))
        => <>(~sprite.alive \/ sprite.impl = "models.OilSpill")

\* An oil spill updated at a positive map speed is eventually removed.
C37_MovingOilSpillEventuallyRemoved ==
    (<>[](spriteIn.op = "update" /\ spriteIn.speed > 0))
        => <>(~sprite.alive \/ sprite.impl # "models.OilSpill")

\* An oil spill updated at map speed 0 stays in its group at its spawn
\* position.
C37_StillOilSpillStays ==
    [][(sprite.impl = "models.OilSpill" /\ spriteIn'.op = "update"
            /\ spriteIn'.speed = 0)
           => (sprite'.alive /\ sprite'.y = sprite.y)]_vars

\* C39: whenever stop_stream has returned after start_stream, the camera
\* handle has been released and the capture thread is not alive, also when
\* the capture thread had ended on its own before the call.
C39_StoppedMeansReleased ==
    thr.mpc = "stopped" => (thr.cap = "released" /\ ~ThreadIsAlive(thr))

\* After stop_stream has returned the capture thread is not alive.
C39_StoppedMeansNotAlive ==
    thr.mpc = "stopped" => ~ThreadIsAlive(thr)

\* The camera is left open by stop_stream only when the capture thread has
\* ended by an exception; a thread that left its loop on the cleared flag
\* leaves a released camera.
C39_ReleasedUnlessEndedAlone ==
    thr.mpc = "stopped" =>
        /\ thr.cpc = "exited" => thr.cap = "released"
        /\ thr.cap # "released" => (thr.cap = "open" /\ thr.cpc = "crashed")

\* The frame being processed is the first one since require_two_hands was
\* switched: the last frame was handled in the other mode.
FirstFrameAfterSwitch ==
    /\ FrameStep
    /\ \/ lastKind = "two" /\ ~ctl.require_two_hands
       \/ lastKind = "question" /\ ctl.require_two_hands

\* The first frame after the switch raises a select event only on an index
\* finger closed in this very frame, and never in two-hand mode.
SelectNotFromCarriedState ==
    (ctl'.question_select_requested /\ ~ctl.question_select_requested)
        => /\ FrameKind(ctl) = "question"
           /\ AnyIndexClosed(ctl.latest_result.hand_landmarks)

\* C38: the first frame processed after require_two_hands is switched raises
\* no swipe and no question-select event out of state recorded in the other
\* mode: the previous hand-y sample and the previous index-closed state
\* carried across the switch cause no event.
C38_NoEventAcrossSwitch ==
    [][FirstFrameAfterSwitch =>
          /\ ~ctl'.swipe_up_detected
          /\ ~ctl'.swipe_down_detected
          /\ SelectNotFromCarriedState]_vars

\* The part about the index-closed state alone.
C38_NoSelectAcrossSwitch ==
    [][FirstFrameAfterSwitch => SelectNotFromCarriedState]_vars

\* A swipe raised by the first frame after the switch is the displacement
\* between the hand-y sample of the other mode and this frame's hand.
C38_SwipeAcrossSwitchIsCarried ==
    [][(FirstFrameAfterSwitch
            /\ (ctl'.swipe_up_detected \/ ctl'.swipe_down_detected))
           => /\ ctl.prev_right_hand_y # NoSample
              /\ Abs(ctl.prev_right_hand_y[1] - ctl'.prev_right_hand_y[1])
                     > ctl.swipe_threshold]_vars

====
